---- MODULE Spec2Model ----
(***************************************************************************)
(* Verification model of the startup-trends-dashboard repository.          *)
(*                                                                         *)
(* Nine specifications share the module:                                   *)
(*   SpecMerge    : HybridStartupFetcher.merge_datasets followed by        *)
(*                  HybridStartupFetcher.apply_manual_enrichment           *)
(*   SpecCat      : StartupCategorizer.categorize_startups                 *)
(*   SpecMain     : main(), the command-line entry point                   *)
(*   SpecRemote   : StartupDataFetcher.load_from_csv_url                   *)
(*   SpecCache    : save_to_cache and load_from_cache of the fetchers      *)
(*   SpecTrending : GitHubStartupFetcher.get_trending_startups             *)
(*   SpecFunding  : utils.format_funding                                   *)
(*   SpecRates    : calculate_growth_metrics, calculate_engagement_score   *)
(*   SpecSources  : HybridStartupFetcher.fetch_all_sources                 *)
(*                                                                         *)
(* Conventions.                                                            *)
(*  - A DataFrame is [columns |-> set of column names, rows |-> sequence   *)
(*    of records].  A cell of a column that a row's dict did not supply    *)
(*    (pandas NaN) is a column name missing from that row's DOMAIN.        *)
(*  - momentum_score and combined_momentum are held in half units          *)
(*    (twice their value), so that the weights 0.5, 1.0 and 2.0 stay       *)
(*    integers: 142.5 is 285, 171.5 is 343.                                *)
(*  - A string cell that reads back as NaN (an empty CSV field) is the     *)
(*    value NaN; Python's None is the value None.                          *)
(***************************************************************************)
EXTENDS Integers, Sequences, FiniteSets, TLC

VARIABLES
    \* ---- merge_datasets / apply_manual_enrichment
    github_df,        \* argument github_df of merge_datasets (sequence of rows)
    ph_df,            \* argument ph_df of merge_datasets (sequence of rows)
    merged_df,        \* the DataFrame merge_datasets returned
    enrichment_df,    \* argument enrichment_df of apply_manual_enrichment
    enriched_df,      \* the DataFrame apply_manual_enrichment returned
    merge_pc,         \* "start", "merged", "merge_raised", "enriched", "enrich_raised"
    merge_exc,        \* the exception that escaped, "none" when none did
    \* ---- categorize_startups
    startups_df,      \* argument startups_df (rows carry their index label)
    response_text,    \* message.content[0].text, as a sequence of tokens
    categorized_df,   \* the rows of the DataFrame categorize_startups returned
    startups_list,    \* the records put into the prompt, <<>> when none was sent
    cat_categories,   \* what _parse_categorization_response returned
    cat_api,          \* "not_called", "ok" (the service answered), "error" (it raised)
    cat_pc,           \* "start", "returned", "raised"
    cat_exc,          \* the exception that escaped, "none" when none did
    \* ---- main
    main_pc,          \* position inside main()
    args,             \* parsed command line and configuration of this run
    main_df,          \* the local variable df of main()
    cache_file,       \* data/categorized_startups.csv: [exists, content]
    cache_before,     \* that file as it was when this run started
    service_calls,    \* completion-service requests issued in this run
    dashboard_df,     \* the table StartupDashboard was constructed with
    ended_by,         \* how this run ended, "running" until it has
    exit_code,        \* process exit status, Running until the process ends
    \* ---- StartupDataFetcher.load_from_csv_url
    remote_pc,        \* "idle", "fetch", "after_fetch", "returned"
    remote_args,      \* [csv_url, use_cache] of the call
    remote_cache,     \* data/remote_data_cache.csv: [exists, content]
    remote_meta,      \* data/remote_data_metadata.json: [exists, url, record_count]
    url_requests,     \* requests.get calls issued by the call
    url_response,     \* what the request of the call ended in
    fetched,          \* what fetch_from_url returned: [is_none, df]
    remote_result,    \* the DataFrame load_from_csv_url returned
    remote_from,      \* the return statement taken: "cache_hit", "fetched",
                      \* "fallback_cache", "sample"; "none" before the return
    \* ---- save_to_cache / load_from_cache of the GitHub and Product Hunt fetchers
    cache_owner,      \* the fetcher the two files belong to (its source tag)
    save_pc,          \* "idle", or "csv_written" between the two file writes
    csv_file,         \* data/cache/<filename>: [exists, content, generation]
    meta_file,        \* <filename>.meta.json: [exists, last_updated, record_count,
                      \*                        source, generation]
    now,              \* datetime.now(), in hours
    saves,            \* save_to_cache calls started so far
    load_max_age,     \* max_age_hours of the last load_from_cache call
    load_result,      \* what that call returned: [is_none, df]
    load_seen,        \* the files as that call found them: [csv, meta]
    \* ---- GitHubStartupFetcher.get_trending_startups
    trend_pc,         \* "idle", "loop", "after_loop", "returned", "raised"
    trend_topics,     \* argument topics
    trend_limit,      \* argument limit
    topic_responses,  \* what the request of each topic visited so far ended in
    all_repos,        \* the local list all_repos
    trend_result,     \* the rows of the DataFrame returned
    trend_exc,        \* the exception that escaped, "none" when none did
    \* ---- utils.format_funding
    funding_amount,   \* argument amount, in dollars
    funding_text,     \* the string returned, "" before the first call
    \* ---- calculate_growth_metrics / calculate_engagement_score
    rates_call,       \* the function called: "none", "growth", "engagement"
    rates_now,        \* the clock at the call, in hours
    rates_input,      \* the rows of the argument df
    rates_output,     \* the rows of the DataFrame returned
    \* ---- HybridStartupFetcher.fetch_all_sources
    src_pc,           \* "idle", "github", "producthunt", "returned", "raised"
    src_args,         \* use_github, use_producthunt, use_cache, cache_max_age_hours
    src_cache,        \* per source: the cache file and its sidecar
    src_before,       \* src_cache when the call under way began
    src_calls,        \* per source: what the call under way did for it
    src_clock         \* the clock, in hours

mergeVars == <<github_df, ph_df, merged_df, enrichment_df, enriched_df, merge_pc, merge_exc>>
catVars   == <<startups_df, response_text, categorized_df, startups_list, cat_categories,
               cat_api, cat_pc, cat_exc>>
mainVars  == <<main_pc, args, main_df, cache_file, cache_before, service_calls,
               dashboard_df, ended_by, exit_code>>
remoteVars == <<remote_pc, remote_args, remote_cache, remote_meta, url_requests,
                url_response, fetched, remote_result, remote_from>>
cacheVars == <<cache_owner, save_pc, csv_file, meta_file, now, saves,
               load_max_age, load_result, load_seen>>
trendVars == <<trend_pc, trend_topics, trend_limit, topic_responses, all_repos,
               trend_result, trend_exc>>
fundingVars == <<funding_amount, funding_text>>
ratesVars == <<rates_call, rates_now, rates_input, rates_output>>
sourcesVars == <<src_pc, src_args, src_cache, src_before, src_calls, src_clock>>
fetchVars == <<remoteVars, cacheVars, trendVars, fundingVars, ratesVars, sourcesVars>>
\* what the actions of one component leave unchanged beside their own variables
besideRemote == <<mergeVars, catVars, mainVars, cacheVars, trendVars, fundingVars, ratesVars,
                  sourcesVars>>
besideCache  == <<mergeVars, catVars, mainVars, remoteVars, trendVars, fundingVars, ratesVars,
                  sourcesVars>>
besideTrend  == <<mergeVars, catVars, mainVars, remoteVars, cacheVars, fundingVars, ratesVars,
                  sourcesVars>>
besideFunding == <<mergeVars, catVars, mainVars, remoteVars, cacheVars, trendVars, ratesVars,
                  sourcesVars>>
besideRates  == <<mergeVars, catVars, mainVars, remoteVars, cacheVars, trendVars,
                  fundingVars, sourcesVars>>
besideSources == <<mergeVars, catVars, mainVars, remoteVars, cacheVars, trendVars,
                   fundingVars, ratesVars>>
vars      == <<mergeVars, catVars, mainVars, fetchVars>>

\* ------------------------------------------------------------------ bounds
MaxGithub     == 2    \* rows of a GitHub record set
MaxProductHunt == 2   \* rows of a Product Hunt record set
MaxEnrichment == 2    \* rows of a manual-enrichment table
MaxStartups   == 2    \* rows of the table handed to categorize_startups
MaxItems      == 2    \* elements of the array in a completion response
MaxRemoteRows == 2    \* records of a remote CSV document
MaxCached     == 2    \* records of a record set handed to save_to_cache
MaxSaves      == 2    \* save_to_cache calls in one behaviour
MaxClock      == 3    \* hours the clock advances in one behaviour
MaxAge        == 2    \* largest max_age_hours a load_from_cache call is given
MaxTopics     == 2    \* topics of a get_trending_startups call
MaxLimit      == 2    \* largest limit of a get_trending_startups call
MaxFundingSteps == 100 \* amounts handed to format_funding on each of three scales
MaxRateRows   == 2    \* rows of a table handed to the rate computations

\* ------------------------------------------------------------- value helpers
NaN  == "<NaN>"
None == "<None>"

\* str.lower() on the names the model uses
Lower(s) ==
    CASE s = "Acme" -> "acme"
      [] s = "ACME" -> "acme"
      [] s = "Beta" -> "beta"
      [] s = "Gamma" -> "gamma"
      [] s = "Zeta" -> "zeta"
      [] OTHER -> s

\* Python truthiness of a string cell: "" and None are falsy, NaN (a float) is truthy
Truthy(v) == v \notin {"", None}

\* dict[key] = value / df.loc[row, col] = value
SetKey(d, k, v) == [x \in (DOMAIN d) \cup {k} |-> IF x = k THEN v ELSE d[x]]

\* Series.fillna(0) read at one row
FillNa0(r, col) == IF col \in DOMAIN r THEN r[col] ELSE 0

\* all sequences over S of length at most n
SeqUpTo(S, n) == UNION {[1..k -> S] : k \in 0..n}

EmptyFrame == [columns |-> {}, rows |-> <<>>]

\* pd.DataFrame(list of dicts): the columns are the union of the dicts' keys
DataFrame(dicts) ==
    [columns |-> UNION {DOMAIN dicts[i] : i \in 1..Len(dicts)}, rows |-> dicts]

\* ------------------------------------------------------- input record pools
\* momentum_score of get_trending_startups, in half units
WrongMomentumScore(stars, forks, watchers) == 2 * stars + 2 * forks + watchers

\* stars * 1.0 + forks * 2.0 + watchers * 0.5, doubled
MomentumScore(stars, forks, watchers) == 2 * stars + 4 * forks + watchers

GitHubRow(name, description, homepage, stars, forks, watchers, created_year) ==
    [name |-> name, description |-> description, github_url |-> "https://github.com/x",
     homepage |-> homepage, stars |-> stars, forks |-> forks, watchers |-> watchers,
     language |-> "Python", topics |-> "startup", created_at |-> created_year,
     star_velocity |-> stars,
     momentum_score |-> MomentumScore(stars, forks, watchers)]

GitHubRows ==
    { GitHubRow("Acme", "", "", 120, 10, 5, 2024),
      GitHubRow("acme", "Acme on GitHub", "https://acme.dev", 60, 0, 0, 2023),
      GitHubRow("Beta", NaN, NaN, 0, 0, 0, 2024),
      \* read back from the cache file: the empty fields are NaN
      GitHubRow("ACME", NaN, NaN, 30, 1, 0, 2022) }

ProductHuntRow(name, tagline, website, upvotes, comments, launch_year) ==
    [name |-> name, tagline |-> tagline, description |-> "long description",
     website |-> website, launch_date |-> launch_year, upvotes |-> upvotes,
     comments |-> comments, topics |-> "ai", maker |-> "maker", featured |-> TRUE]

ProductHuntRows ==
    { ProductHuntRow("acme", "Acme on Product Hunt", "https://acme.ph", 50, 4, 2024),
      ProductHuntRow("ACME", "", "", 10, 0, 2023),
      ProductHuntRow("Gamma", "Gamma launch", "https://gamma.io", 0, 7, 2024) }

\* rows of data/manual_enrichment.csv; founder is a column merge_datasets never creates
EnrichmentRows ==
    { [name |-> "acme", funding_total |-> 5000000, location |-> "Berlin", founder |-> "Ann"],
      [name |-> "ACME", funding_total |-> 7500000, location |-> "Paris", founder |-> "Bob"],
      [name |-> "Zeta", funding_total |-> 900000, location |-> "Oslo", founder |-> "Zed"] }

\* the enrichment tables: pd.DataFrame() when the file is absent, else its rows
EnrichmentFrames ==
    {IF rows = <<>> THEN EmptyFrame ELSE DataFrame(rows) :
        rows \in SeqUpTo(EnrichmentRows, MaxEnrichment)}

\* ------------------------------------------------------------ merge_datasets
\* the dict built for one GitHub row
GitHubStartup(row) ==
    [name |-> row.name, description |-> row.description, source |-> "GitHub",
     github_url |-> row.github_url, website |-> row.homepage,
     github_stars |-> row.stars, github_forks |-> row.forks,
     star_velocity |-> row.star_velocity, momentum_score |-> row.momentum_score,
     language |-> row.language, topics |-> row.topics,
     founded_year |-> row.created_at, funding_total |-> 0, location |-> ""]

\* the dict built for a Product Hunt row that matched no earlier entry
ProductHuntStartup(row) ==
    [name |-> row.name, description |-> row.tagline, source |-> "Product Hunt",
     github_url |-> "", website |-> row.website,
     github_stars |-> 0, github_forks |-> 0, star_velocity |-> 0, momentum_score |-> 0,
     language |-> "", topics |-> row.topics,
     founded_year |-> row.launch_date, funding_total |-> 0, location |-> "",
     ph_upvotes |-> row.upvotes, ph_comments |-> row.comments,
     launch_date |-> row.launch_date]

\* for _, row in github_df.iterrows(): all_startups.append(startup)
ProcessGitHub(gh) == [i \in 1..Len(gh) |-> GitHubStartup(gh[i])]

\* next((s for s in all_startups if s["name"].lower() == name.lower()), None):
\* the position of the first entry with that name, 0 for None
FindExistingGitHubOrigin(all_startups, name) ==
    LET hits == {i \in 1..Len(all_startups) :
                    /\ all_startups[i].source = "GitHub"
                    /\ Lower(all_startups[i].name) = Lower(name)}
    IN  IF hits = {} THEN 0 ELSE CHOOSE i \in hits : \A j \in hits : i <= j

FindExisting(all_startups, name) ==
    LET hits == {i \in 1..Len(all_startups) : Lower(all_startups[i].name) = Lower(name)}
    IN  IF hits = {} THEN 0 ELSE CHOOSE i \in hits : \A j \in hits : i <= j

\* the branch "if existing:" on one entry
MergeTakingProductHuntName(existing, row) ==
    LET e1 == SetKey(existing, "ph_upvotes", row.upvotes)
        e2 == SetKey(e1, "ph_comments", row.comments)
        e3 == SetKey(e2, "launch_date", row.launch_date)
    IN  SetKey(e3, "name", row.name)

MergeIntoExisting(existing, row) ==
    LET e1 == SetKey(existing, "ph_upvotes", row.upvotes)
        e2 == SetKey(e1, "ph_comments", row.comments)
        e3 == SetKey(e2, "launch_date", row.launch_date)
        e4 == IF ~Truthy(e3.website) THEN SetKey(e3, "website", row.website) ELSE e3
        e5 == IF ~Truthy(e4.description) THEN SetKey(e4, "description", row.tagline) ELSE e4
    IN  e5

\* one iteration of "for _, row in ph_df.iterrows()"
ProcessProductHuntRow(all_startups, row) ==
    LET k == FindExisting(all_startups, row.name)
    IN  IF k # 0
        THEN [all_startups EXCEPT ![k] = MergeIntoExisting(all_startups[k], row)]
        ELSE Append(all_startups, ProductHuntStartup(row))

RECURSIVE ProcessProductHunt(_, _, _)
ProcessProductHunt(all_startups, ph, i) ==
    IF i > Len(ph) THEN all_startups
    ELSE ProcessProductHunt(ProcessProductHuntRow(all_startups, ph[i]), ph, i + 1)

\* the list all_startups when the two loops are done
AllStartups(gh, ph) == ProcessProductHunt(ProcessGitHub(gh), ph, 1)

\* df["combined_momentum"] at one row, in half units
WrongCombinedMomentum(r) ==
    r.momentum_score + 2 * FillNa0(r, "ph_upvotes") + FillNa0(r, "ph_comments")

CombinedMomentum(r) ==
    r.momentum_score + FillNa0(r, "ph_upvotes") + 2 * FillNa0(r, "ph_comments")

WithCombinedMomentum(rows) ==
    [i \in 1..Len(rows) |-> SetKey(rows[i], "combined_momentum", CombinedMomentum(rows[i]))]

\* sort_values("combined_momentum", ascending=False): pandas' default sort is
\* not stable, so rows with equal scores may come out in either order
RECURSIVE SortedOrders(_, _)
SortedOrders(rows, left) ==
    IF left = {} THEN {<<>>}
    ELSE LET top == {i \in left : \A j \in left :
                        rows[i].combined_momentum >= rows[j].combined_momentum}
         IN  UNION {{<<rows[i]>> \o t : t \in SortedOrders(rows, left \ {i})} : i \in top}

SortValuesDescending(rows) == SortedOrders(rows, 1..Len(rows))

\* df.get("ph_upvotes", 0).fillna(0): DataFrame.get hands back the int 0 when the
\* column does not exist, and an int has no fillna
CombinedMomentumRaises(df) ==
    df.rows # <<>> /\ ("ph_upvotes" \notin df.columns \/ "ph_comments" \notin df.columns)

\* the tables merge_datasets may return (several when scores tie)
MergeResults(gh, ph) ==
    LET df == DataFrame(AllStartups(gh, ph))
    IN  IF df.rows = <<>> THEN {df}
        ELSE {[columns |-> df.columns \cup {"combined_momentum"}, rows |-> s] :
                 s \in SortValuesDescending(WithCombinedMomentum(df.rows))}

MergeDatasets ==
    /\ merge_pc = "start"
    /\ \E gh \in SeqUpTo(GitHubRows, MaxGithub), ph \in SeqUpTo(ProductHuntRows, MaxProductHunt) :
        /\ github_df' = gh
        /\ ph_df' = ph
        /\ IF CombinedMomentumRaises(DataFrame(AllStartups(gh, ph)))
           THEN /\ merge_pc' = "merge_raised"
                /\ merge_exc' = "AttributeError"
                /\ merged_df' = EmptyFrame
           ELSE /\ merge_pc' = "merged"
                /\ merge_exc' = "none"
                /\ merged_df' \in MergeResults(gh, ph)
    /\ UNCHANGED <<enrichment_df, enriched_df, catVars, mainVars, fetchVars>>

\* --------------------------------------------------- apply_manual_enrichment
\* mask = df["name"].str.lower() == name.lower(), as the set of row positions
MaskExact(rows, name) == {i \in 1..Len(rows) : rows[i].name = name}

Mask(rows, name) == {i \in 1..Len(rows) : Lower(rows[i].name) = Lower(name)}

\* for col in enrichment_df.columns: if col != "name" and col in df.columns
EnrichedColumns(columns, enrichment_columns) == (enrichment_columns \ {"name"}) \cap columns

RECURSIVE OverwriteColumns(_, _, _)
OverwriteColumns(r, cols, enrich_row) ==
    IF cols = {} THEN r
    ELSE LET c == CHOOSE x \in cols : TRUE
         IN  OverwriteColumns(SetKey(r, c, enrich_row[c]), cols \ {c}, enrich_row)

\* one iteration of "for _, enrich_row in enrichment_df.iterrows()"
EnrichRow(df, enrichment_columns, enrich_row) ==
    LET mask == Mask(df.rows, enrich_row.name)
        cols == EnrichedColumns(df.columns, enrichment_columns)
    IN  [columns |-> df.columns,
         rows |-> [i \in 1..Len(df.rows) |->
                     IF i \in mask THEN OverwriteColumns(df.rows[i], cols, enrich_row)
                     ELSE df.rows[i]]]

RECURSIVE EnrichLoop(_, _, _)
EnrichLoop(df, enrichment, i) ==
    IF i > Len(enrichment.rows) THEN df
    ELSE EnrichLoop(EnrichRow(df, enrichment.columns, enrichment.rows[i]), enrichment, i + 1)

\* df["name"] on a DataFrame without that column (pd.DataFrame([]) has no columns)
EnrichmentRaises(df, enrichment) ==
    enrichment.rows # <<>> /\ "name" \notin df.columns

ApplyManualEnrichment ==
    /\ merge_pc = "merged"
    /\ \E enrichment \in EnrichmentFrames :
        /\ enrichment_df' = enrichment
        /\ IF EnrichmentRaises(merged_df, enrichment)
           THEN /\ merge_pc' = "enrich_raised"
                /\ merge_exc' = "KeyError"
                /\ enriched_df' = EmptyFrame
           ELSE /\ merge_pc' = "enriched"
                /\ merge_exc' = "none"
                /\ enriched_df' = IF enrichment.rows = <<>> THEN merged_df
                                  ELSE EnrichLoop(merged_df, enrichment, 1)
    /\ UNCHANGED <<github_df, ph_df, merged_df, catVars, mainVars, fetchVars>>

\* ------------------------------------------------ categorizer: input tables
StartupName(label) ==
    CASE label = 0 -> "OpenAI" [] label = 1 -> "Stripe" [] label = 2 -> "Notion"
      [] OTHER -> "Figma"

\* the row index of a table: 0..n-1 after a load, other labels after a filter
\* or a re-ordering
IndexLabels(n) ==
    {ix \in [1..n -> 0..MaxStartups] : \A i, j \in 1..n : i # j => ix[i] # ix[j]}

\* rows carry their index label in the field index
StartupFrames ==
    UNION {
        { [columns |-> {"name", "description"},
           rows |-> [i \in 1..n |-> [index |-> ix[i], name |-> StartupName(ix[i]),
                                     description |-> "what it does"]]] :
            ix \in IndexLabels(n) }
        : n \in 0..MaxStartups }
    \cup
    \* a remote CSV without a description column
    { [columns |-> {"name"}, rows |-> <<[index |-> 0, name |-> "OpenAI"]>>] }

\* ---------------------------------------------- categorizer: response texts
\* A response text is a sequence of tokens.  "[", "]" and "," are the JSON
\* punctuation; the item tokens stand for JSON objects; the other tokens are
\* JSON scalars or prose.
ItemTokens == {"L0", "L0b", "L1", "L2", "Lneg"}

ItemOf(tok) ==
    CASE tok = "L0"   -> [id |-> 0, category |-> "AI Infrastructure",
                          subcategory |-> "Models", themes |-> <<"ml", "cloud">>]
      [] tok = "L0b"  -> [id |-> 0, category |-> "Fintech",
                          subcategory |-> "Payments", themes |-> <<"b2b">>]
      [] tok = "L1"   -> [id |-> 1]
      [] tok = "L2"   -> [id |-> 2, category |-> "Developer Tools",
                          subcategory |-> "", themes |-> <<>>]
      [] tok = "Lneg" -> [id |-> -1, category |-> "Digital Health",
                          subcategory |-> "Insurance", themes |-> <<"b2c">>]

ScalarTokens == {"42", "null", "\"\""}
DictTokens   == ItemTokens \cup {"{}", "{obj}"}
ValueTokens  == ScalarTokens \cup DictTokens

\* the array literals: "[" e1 "," e2 ... "]"
RECURSIVE CommaSeparated(_)
CommaSeparated(elems) ==
    IF Len(elems) <= 1 THEN elems
    ELSE <<elems[1], ",">> \o CommaSeparated(Tail(elems))

ArrayLiteral(elems) == <<"[">> \o CommaSeparated(elems) \o <<"]">>

ElementTokens == ItemTokens \cup {"{obj}", "42"}

ArrayLiterals == {ArrayLiteral(elems) : elems \in SeqUpTo(ElementTokens, MaxItems)}

\* texts without an array literal: empty, prose, a JSON object, a JSON scalar,
\* an array cut off before its closing bracket
NonArrayTexts ==
    {<<>>, <<"I cannot categorize these.">>, <<"{}">>, <<"{obj}">>, <<"L0">>,
     <<"42">>, <<"null">>, <<"\"\"">>, <<"[", "L0", ",">>}

Prefixes == {<<>>, <<"Here are the categories:">>, <<"Note", "[", "sic", "]", ":">>}
Suffixes == {<<>>, <<"Hope this helps!">>, <<"[", "end", "]">>}

ResponseTexts ==
    {pre \o core \o suf :
        pre \in Prefixes, core \in ArrayLiterals \cup NonArrayTexts, suf \in Suffixes}

\* ------------------------------------------ _parse_categorization_response
\* str.find / str.rfind, as 0-based token positions; -1 when absent
Find(text, tok) ==
    LET hits == {i \in 1..Len(text) : text[i] = tok}
    IN  IF hits = {} THEN -1 ELSE (CHOOSE i \in hits : \A j \in hits : i <= j) - 1

RFind(text, tok) ==
    LET hits == {i \in 1..Len(text) : text[i] = tok}
    IN  IF hits = {} THEN -1 ELSE (CHOOSE i \in hits : \A j \in hits : i >= j) - 1

\* text[a:b]
Slice(text, a, b) == SubSeq(text, a + 1, b)

\* the elements between the brackets parse: values separated by commas
ElementsParse(inner) ==
    \/ inner = <<>>
    \/ /\ Len(inner) % 2 = 1
       /\ \A i \in 1..Len(inner) :
            IF i % 2 = 1 THEN inner[i] \in ValueTokens ELSE inner[i] = ","

KindOf(tok) ==
    CASE tok \in DictTokens -> "dict"
      [] tok = "42" -> "int"
      [] tok = "null" -> "NoneType"
      [] OTHER -> "str"

\* json.loads: [ok |-> FALSE] is JSONDecodeError
JsonLoads(text) ==
    IF Len(text) = 1 /\ text[1] \in ValueTokens
    THEN [ok |-> TRUE, kind |-> KindOf(text[1]), elems |-> text]
    ELSE IF /\ Len(text) >= 2 /\ text[1] = "[" /\ text[Len(text)] = "]"
            /\ ElementsParse(SubSeq(text, 2, Len(text) - 1))
         THEN [ok |-> TRUE, kind |-> "list",
               elems |-> LET inner == SubSeq(text, 2, Len(text) - 1)
                         IN  [i \in 1..((Len(inner) + 1) \div 2) |-> inner[2 * i - 1]]]
         ELSE [ok |-> FALSE, kind |-> "error", elems |-> <<>>]

StartIdx(text) == Find(text, "[")

ParseCategorizationResponse(response) ==
    LET start_idx == StartIdx(response)
        end_idx   == RFind(response, "]") + 1
        loaded    == IF start_idx # -1 /\ end_idx > start_idx
                     THEN JsonLoads(Slice(response, start_idx, end_idx))
                     ELSE JsonLoads(response)
    IN  IF loaded.ok THEN [kind |-> loaded.kind, elems |-> loaded.elems]
        ELSE [kind |-> "list", elems |-> <<>>]

\* ------------------------------------------------------ categorize_startups
RECURSIVE Join(_)
\* ", ".join(themes)
Join(themes) ==
    IF themes = <<>> THEN ""
    ELSE IF Len(themes) = 1 THEN themes[1]
    ELSE themes[1] \o ", " \o Join(Tail(themes))

\* dict.get(key, default)
Get(d, key, default) == IF key \in DOMAIN d THEN d[key] ELSE default

\* startups_df["category"] = None ... on the copy
Unlabelled(rows) ==
    [i \in 1..Len(rows) |->
        rows[i] @@ [category |-> None, subcategory |-> None, themes |-> None]]

\* what "for item in categories" iterates over: the elements of a list, the
\* keys of a dict, the characters of a string
Iterated(categories) ==
    CASE categories.kind = "list" -> categories.elems
      [] categories.kind = "dict" ->
            IF categories.elems[1] = "{}" THEN <<>> ELSE <<"<key>">>
      [] OTHER -> <<>>

\* the exception item["id"] raises, "none" when the item is a dict with an id
ItemIdRaises(item) ==
    IF item \in ItemTokens THEN "none"
    ELSE IF item \in {"{}", "{obj}"} THEN "KeyError"
    ELSE "TypeError"

\* startups_list: one dict per row, in row order, its id the row's index label
StartupsList(df) ==
    [i \in 1..Len(df.rows) |->
        [id |-> df.rows[i].index, name |-> df.rows[i].name,
         description |-> df.rows[i].description]]

\* categories while no response was parsed
NotParsed == [kind |-> "not_parsed", elems |-> <<>>]

\* the three startups_df.at[idx, ...] = ... of one item; a label that is not in
\* the index makes .at append a row of that label
AttachLabels(rows, item) ==
    LET idx == item.id
        labels == [category |-> Get(item, "category", "Other"),
                   subcategory |-> Get(item, "subcategory", ""),
                   themes |-> Join(Get(item, "themes", <<>>))]
    IN  IF ~(idx < Len(rows)) THEN rows
        ELSE IF \E i \in 1..Len(rows) : rows[i].index = idx
             THEN [i \in 1..Len(rows) |->
                     IF rows[i].index = idx
                     THEN [rows[i] EXCEPT !.category = labels.category,
                                          !.subcategory = labels.subcategory,
                                          !.themes = labels.themes]
                     ELSE rows[i]]
             ELSE Append(rows, [index |-> idx, name |-> NaN, description |-> NaN] @@ labels)

\* the loop "for item in categories": [exc, rows]
RECURSIVE JoinLabels(_, _, _)
JoinLabels(rows, items, i) ==
    IF i > Len(items) THEN [exc |-> "none", rows |-> rows]
    ELSE IF ItemIdRaises(items[i]) # "none"
         THEN [exc |-> ItemIdRaises(items[i]), rows |-> rows]
         ELSE JoinLabels(AttachLabels(rows, ItemOf(items[i])), items, i + 1)

\* categorize_startups(startups_df) with the service answering api ("ok" with
\* the text response, "error" when messages.create raises):
\* [exc, called, rows] - the exception that escapes, whether the service was
\* called, the rows of the returned table
CategorizeStartups(df, api, response) ==
    IF df.rows # <<>> /\ ~({"name", "description"} \subseteq df.columns)
    THEN [exc |-> "KeyError", called |-> FALSE, rows |-> <<>>]
    ELSE IF api = "error"
    THEN [exc |-> "APIError", called |-> TRUE, rows |-> <<>>]
    ELSE LET categories == ParseCategorizationResponse(response)
         IN  IF categories.kind \in {"int", "NoneType"}
             THEN [exc |-> "TypeError", called |-> TRUE, rows |-> <<>>]
             ELSE LET joined == JoinLabels(Unlabelled(df.rows), Iterated(categories), 1)
                  IN  [exc |-> joined.exc, called |-> TRUE,
                       rows |-> IF joined.exc = "none" THEN joined.rows ELSE <<>>]

Categorize ==
    /\ cat_pc = "start"
    /\ \E df \in StartupFrames, api \in {"ok", "error"}, response \in ResponseTexts :
        LET out == CategorizeStartups(df, api, response)
        IN  /\ startups_df' = df
            /\ cat_api' = IF out.called THEN api ELSE "not_called"
            /\ response_text' = IF api = "ok" /\ out.called THEN response ELSE <<>>
            /\ cat_exc' = out.exc
            /\ cat_pc' = IF out.exc = "none" THEN "returned" ELSE "raised"
            /\ categorized_df' = out.rows
            /\ startups_list' = IF out.called THEN StartupsList(df) ELSE <<>>
            /\ cat_categories' = IF api = "ok" /\ out.called
                              THEN ParseCategorizationResponse(response)
                              ELSE NotParsed
    /\ UNCHANGED <<mergeVars, mainVars, fetchVars>>

\* ------------------------------------------------------------------- main()
\* exit_code while the process has not ended
Running == -1

NoFile == [exists |-> FALSE, content |-> EmptyFrame]

NoArgs == [recategorize |-> FALSE, no_dashboard |-> FALSE, api_key |-> FALSE,
           data_source |-> "hybrid", data_source_url |-> FALSE]

\* the flags of the command line and the configuration read from the environment
RunArgs ==
    [recategorize : BOOLEAN, no_dashboard : BOOLEAN, api_key : BOOLEAN,
     data_source : {"hybrid", "sample", "url"}, data_source_url : BOOLEAN]

\* a table as load_data returns it: a fresh 0..n-1 index
RangeIndexFrame(n) ==
    [columns |-> {"name", "description"},
     rows |-> [i \in 1..n |-> [index |-> i - 1, name |-> StartupName(i - 1),
                               description |-> "what it does"]]]

\* fetcher.load_data: the ValueError of source "url" without a URL escapes;
\* a remote CSV may lack the description column
LoadDataRaises(a) == a.data_source = "url" /\ ~a.data_source_url

LoadedFrames(a) ==
    IF a.data_source = "sample" THEN {RangeIndexFrame(MaxStartups)}
    ELSE IF a.data_source = "url"
    THEN {RangeIndexFrame(n) : n \in 0..MaxStartups}
         \cup {[columns |-> {"name"}, rows |-> <<[index |-> 0, name |-> "OpenAI"]>>]}
    ELSE {RangeIndexFrame(n) : n \in 0..MaxStartups}

\* DataFrame.to_csv(index=False): the index is dropped, None and NaN are
\* written as empty fields
CsvField(v) == IF v \in {None, NaN, ""} THEN "" ELSE v

ToCsv(df) ==
    [columns |-> df.columns,
     rows |-> [i \in 1..Len(df.rows) |->
                 [c \in (DOMAIN df.rows[i]) \ {"index"} |-> CsvField(df.rows[i][c])]]]

\* pd.read_csv: empty fields read as NaN, the index is a fresh 0..n-1
ReadCsv(file) ==
    [columns |-> file.columns,
     rows |-> [i \in 1..Len(file.rows) |->
                 [c \in (DOMAIN file.rows[i]) \cup {"index"} |->
                     IF c = "index" THEN i - 1
                     ELSE IF file.rows[i][c] = "" THEN NaN ELSE file.rows[i][c]]]]

\* the completion responses main's runs draw from
MainResponseTexts ==
    {ArrayLiteral(<<"L0", "L1">>), ArrayLiteral(<<"L0">>),
     <<"I cannot categorize these.">>, <<"{obj}">>}

\* the branch main takes at step 2
AlwaysCategorize(a, file) == TRUE

ShouldCategorize(a, file) == a.recategorize \/ ~file.exists

\* StartupDashboard(df): sorted(df["category"].unique()) cannot order a missing
\* category (None or NaN) against a string
DashboardInitRaises(df) ==
    \E i, j \in 1..Len(df.rows) :
        /\ df.rows[i].category \in {None, NaN}
        /\ df.rows[j].category \notin {None, NaN}

\* the status main ends with after the dashboard step
DashboardAlwaysZero(outcome) == 0

DashboardExitCode(outcome) == IF outcome = "Exception" THEN 1 ELSE 0

Exit(code, why) ==
    /\ main_pc' = "exited"
    /\ exit_code' = code
    /\ ended_by' = why

\* a new process: python main.py [--recategorize] [--no-dashboard]
StartRun ==
    /\ main_pc \in {"idle", "exited"}
    /\ \E a \in RunArgs : args' = a
    /\ main_pc' = "check_key"
    /\ main_df' = EmptyFrame
    /\ cache_before' = cache_file
    /\ service_calls' = 0
    /\ dashboard_df' = EmptyFrame
    /\ ended_by' = "running"
    /\ exit_code' = Running
    /\ UNCHANGED <<cache_file, mergeVars, catVars, fetchVars>>

\* if not config.ANTHROPIC_API_KEY: sys.exit(1)
CheckApiKey ==
    /\ main_pc = "check_key"
    /\ IF ~args.api_key
       THEN Exit(1, "missing_credential")
       ELSE /\ main_pc' = "load"
            /\ UNCHANGED <<ended_by, exit_code>>
    /\ UNCHANGED <<args, main_df, cache_file, cache_before, service_calls, dashboard_df,
                   mergeVars, catVars, fetchVars>>

\* Step 1: df = fetcher.load_data(...)
LoadData ==
    /\ main_pc = "load"
    /\ IF LoadDataRaises(args)
       THEN /\ Exit(1, "uncaught_exception")
            /\ UNCHANGED main_df
       ELSE /\ main_df' \in LoadedFrames(args)
            /\ main_pc' = "step2"
            /\ UNCHANGED <<ended_by, exit_code>>
    /\ UNCHANGED <<args, cache_file, cache_before, service_calls, dashboard_df,
                   mergeVars, catVars, fetchVars>>

\* the cache file after the try block of step 2: df.to_csv(...) is reached
\* only when categorize_startups returned
SavedBeforeCategorizing(out, df, file) == [exists |-> TRUE, content |-> ToCsv(df)]

SavedCategorized(out, df, file) ==
    IF out.exc # "none" THEN file ELSE [exists |-> TRUE, content |-> ToCsv(df)]

\* Step 2, first branch: categorize, save the cache, print the summary
CategorizeAndSave ==
    /\ main_pc = "step2"
    /\ ShouldCategorize(args, cache_file)
    /\ \E api \in {"ok", "error"}, response \in MainResponseTexts :
        LET out == CategorizeStartups(main_df, api, response)
            df  == [columns |-> main_df.columns \cup {"category", "subcategory", "themes"},
                    rows |-> out.rows]
        IN  /\ service_calls' = service_calls + (IF out.called THEN 1 ELSE 0)
            /\ cache_file' = SavedCategorized(out, df, cache_file)
            /\ IF out.exc # "none"
               THEN /\ Exit(1, "categorization_failed")
                    /\ UNCHANGED main_df
               ELSE /\ main_df' = df
                    /\ main_pc' = "after_step2"
                    /\ UNCHANGED <<ended_by, exit_code>>
    /\ UNCHANGED <<args, cache_before, dashboard_df, mergeVars, catVars, fetchVars>>

\* Step 2, second branch: df = pd.read_csv(categorized_data_path)
LoadCached ==
    /\ main_pc = "step2"
    /\ ~ShouldCategorize(args, cache_file)
    /\ main_df' = ReadCsv(cache_file.content)
    /\ main_pc' = "after_step2"
    /\ UNCHANGED <<args, cache_file, cache_before, service_calls, dashboard_df,
                   ended_by, exit_code, mergeVars, catVars, fetchVars>>

\* if args.no_dashboard: return
NoDashboard ==
    /\ main_pc = "after_step2"
    /\ args.no_dashboard
    /\ Exit(0, "no_dashboard")
    /\ UNCHANGED <<args, main_df, cache_file, cache_before, service_calls, dashboard_df,
                   mergeVars, catVars, fetchVars>>

\* Step 3: StartupDashboard(df); dashboard.run(port) - the server runs until the
\* operator interrupts it, it returns, or it raises
LaunchDashboard ==
    /\ main_pc = "after_step2"
    /\ ~args.no_dashboard
    /\ dashboard_df' = main_df
    /\ \E outcome \in (IF DashboardInitRaises(main_df) THEN {"Exception"}
                       ELSE {"KeyboardInterrupt", "Exception", "returned"}) :
        Exit(DashboardExitCode(outcome),
             CASE outcome = "KeyboardInterrupt" -> "dashboard_interrupted"
               [] outcome = "Exception" -> "dashboard_failed"
               [] OTHER -> "dashboard_returned")
    /\ UNCHANGED <<args, main_df, cache_file, cache_before, service_calls,
                   mergeVars, catVars, fetchVars>>

\* ------------------------------------ StartupDataFetcher.load_from_csv_url
CsvUrls == {"https://a.example/startups.csv", "https://b.example/startups.csv"}

\* the CSV document a URL serves with n records; the first has no description
RemoteBody(url, n) ==
    [columns |-> {"name", "description"},
     rows |-> [i \in 1..n |->
                 [name |-> url, description |-> IF i = 1 THEN "" ELSE "what it does"]]]

\* what requests.get(url, timeout=30) and the two calls after it may end in:
\* an exception of requests.get, an HTTPError of raise_for_status, an
\* EmptyDataError of pd.read_csv on an empty body, or a parsed CSV document
Responses(url) ==
    {[kind |-> k, body |-> EmptyFrame] : k \in {"Timeout", "HTTPError", "EmptyDataError"}}
    \cup {[kind |-> "CSV", body |-> RemoteBody(url, n)] : n \in 0..MaxRemoteRows}

NoResponse == [kind |-> "none", body |-> EmptyFrame]

NoMeta == [exists |-> FALSE, url |-> "", record_count |-> 0]

NoneFrame == [is_none |-> TRUE, df |-> EmptyFrame]

\* create_sample_data(): the bundled records with a fresh index
CreateSampleData == RangeIndexFrame(MaxStartups)

\* fetch_from_url(url): the value returned and the two files afterwards
FetchFromUrl(url, response, cache, meta) ==
    IF response.kind = "CSV"
    THEN LET df == ReadCsv(response.body)
         IN  [df |-> [is_none |-> FALSE, df |-> df],
              cache |-> [exists |-> TRUE, content |-> ToCsv(df)],
              meta |-> [exists |-> TRUE, url |-> url, record_count |-> Len(df.rows)]]
    ELSE [df |-> NoneFrame, cache |-> cache, meta |-> meta]

\* the branch "if df is None" of load_from_csv_url
FallBackSampleOnly(cache) == [df |-> CreateSampleData, from |-> "sample"]

FallBack(cache) ==
    IF cache.exists THEN [df |-> ReadCsv(cache.content), from |-> "fallback_cache"]
    ELSE [df |-> CreateSampleData, from |-> "sample"]

\* the condition under which load_from_csv_url answers from the cache
CacheHit(a, cache, meta) ==
    a.use_cache /\ cache.exists /\ meta.exists /\ meta.url = a.csv_url

\* load_from_csv_url(csv_url, use_cache) up to the call of fetch_from_url
LoadFromCsvUrl ==
    /\ remote_pc \in {"idle", "returned"}
    /\ \E a \in [csv_url : CsvUrls, use_cache : BOOLEAN] :
        /\ remote_args' = a
        /\ IF CacheHit(a, remote_cache, remote_meta)
           THEN /\ remote_pc' = "returned"
                /\ remote_result' = ReadCsv(remote_cache.content)
                /\ remote_from' = "cache_hit"
           ELSE /\ remote_pc' = "fetch"
                /\ remote_result' = EmptyFrame
                /\ remote_from' = "none"
    /\ url_requests' = 0
    /\ url_response' = NoResponse
    /\ fetched' = NoneFrame
    /\ UNCHANGED <<remote_cache, remote_meta, besideRemote>>

\* df = self.fetch_from_url(csv_url, file_format="csv")
FetchFresh ==
    /\ remote_pc = "fetch"
    /\ \E response \in Responses(remote_args.csv_url) :
        LET out == FetchFromUrl(remote_args.csv_url, response, remote_cache, remote_meta)
        IN  /\ url_response' = response
            /\ fetched' = out.df
            /\ remote_cache' = out.cache
            /\ remote_meta' = out.meta
    /\ url_requests' = url_requests + 1
    /\ remote_pc' = "after_fetch"
    /\ UNCHANGED <<remote_args, remote_result, remote_from, besideRemote>>

\* "if df is None: ..." and "return df"
ReturnFetchedOrFallBack ==
    /\ remote_pc = "after_fetch"
    /\ IF fetched.is_none
       THEN /\ remote_result' = FallBack(remote_cache).df
            /\ remote_from' = FallBack(remote_cache).from
       ELSE /\ remote_result' = fetched.df
            /\ remote_from' = "fetched"
    /\ remote_pc' = "returned"
    /\ UNCHANGED <<remote_args, remote_cache, remote_meta, url_requests, url_response,
                   fetched, besideRemote>>

\* ------------------- save_to_cache / load_from_cache (GitHub, Product Hunt)
\* the source tag each fetcher writes into its sidecar
SourceTags == {"GitHub API", "Product Hunt"}

NoCsv == [exists |-> FALSE, content |-> EmptyFrame, generation |-> 0]

NoSidecar == [exists |-> FALSE, last_updated |-> 0, record_count |-> 0,
              source |-> "", generation |-> 0]

\* the record sets the callers hand to save_to_cache: never an empty one
\* ("if not github_df.empty" / "if not ph_df.empty" in fetch_all_sources)
CachedFrames == {RangeIndexFrame(n) : n \in 1..MaxCached}

\* df.to_csv(cache_path, index=False); generation counts the save that wrote
\* the file (it is not part of the file)
WriteCsv(df, generation) ==
    [exists |-> TRUE, content |-> ToCsv(df), generation |-> generation]

\* json.dump(metadata, f): last_updated is read from the clock after the CSV
\* has been written
WriteSidecar(df, clock, tag, generation) ==
    [exists |-> TRUE, last_updated |-> clock, record_count |-> Len(df.rows),
     source |-> tag, generation |-> generation]

\* age_hours <= max_age_hours
FreshStrict(age_hours, max_age_hours) == age_hours < max_age_hours

Fresh(age_hours, max_age_hours) == age_hours <= max_age_hours

\* load_from_cache(filename, max_age_hours)
LoadFromCacheResult(csv, meta, clock, max_age_hours) ==
    IF ~csv.exists THEN NoneFrame
    ELSE IF meta.exists /\ Fresh(clock - meta.last_updated, max_age_hours)
    THEN [is_none |-> FALSE, df |-> ReadCsv(csv.content)]
    ELSE NoneFrame

\* save_to_cache, first half: the CSV file is replaced
SaveToCacheCsv ==
    /\ save_pc = "idle"
    /\ saves < MaxSaves
    /\ \E df \in CachedFrames : csv_file' = WriteCsv(df, saves + 1)
    /\ saves' = saves + 1
    /\ save_pc' = "csv_written"
    /\ UNCHANGED <<cache_owner, meta_file, now, load_max_age, load_result, load_seen,
                   besideCache>>

\* save_to_cache, second half: the sidecar is replaced
SaveToCacheSidecar ==
    /\ save_pc = "csv_written"
    /\ meta_file' = WriteSidecar(ReadCsv(csv_file.content), now, cache_owner,
                                 csv_file.generation)
    /\ save_pc' = "idle"
    /\ UNCHANGED <<cache_owner, csv_file, now, saves, load_max_age, load_result, load_seen,
                   besideCache>>

\* save_to_cache ends between the two writes: open(metadata_path, 'w') raises
\* (OSError) or the process is stopped
SaveToCacheFails ==
    /\ save_pc = "csv_written"
    /\ save_pc' = "idle"
    /\ UNCHANGED <<cache_owner, csv_file, meta_file, now, saves, load_max_age,
                   load_result, load_seen, besideCache>>

\* load_from_cache, called by this process when no save is under way or by
\* another process of the same installation at any moment
LoadFromCache ==
    /\ \E max_age_hours \in 0..MaxAge :
        /\ load_max_age' = max_age_hours
        /\ load_result' = LoadFromCacheResult(csv_file, meta_file, now, max_age_hours)
    /\ load_seen' = [csv |-> csv_file, meta |-> meta_file, clock |-> now]
    /\ UNCHANGED <<cache_owner, save_pc, csv_file, meta_file, now, saves,
                   besideCache>>

\* time passes
Tick ==
    /\ now < MaxClock
    /\ now' = now + 1
    /\ UNCHANGED <<cache_owner, save_pc, csv_file, meta_file, saves, load_max_age,
                   load_result, load_seen, besideCache>>

\* ------------------------------ GitHubStartupFetcher.get_trending_startups
\* the default topics, in their order
DefaultTopics == <<"startup", "saas", "ai", "fintech">>

TopicsOf(n) == [i \in 1..n |-> IF i <= Len(DefaultTopics) THEN DefaultTopics[i] ELSE "topic"]

\* items of a search payload: two repositories (the second without fork and
\* watcher counts) and an item of unexpected shape, without an id; owner
\* stands for owner.login
RepoItems ==
    { [id |-> 1, name |-> "acme-app", owner |-> "Acme", description |-> "Acme on GitHub",
       stargazers_count |-> 120, forks_count |-> 10, watchers_count |-> 5],
      [id |-> 2, name |-> "beta-kit", owner |-> "Beta", stargazers_count |-> 200],
      [name |-> "mystery", stargazers_count |-> 7] }

\* the pages of at most n items a search may answer with (per_page = min(100, limit))
Pages(n) ==
    {p \in SeqUpTo(RepoItems, n) : \A i, j \in 1..Len(p) : i # j => p[i] # p[j]}

\* what the request of one topic may end in: status 0 stands for an exception
\* of requests.get; a 200 body is malformed JSON, a JSON array, an object
\* without "items", an object whose "items" is null, or an object with items
TopicResponses(limit) ==
    {[status |-> st, payload |-> "none", items |-> <<>>] : st \in {0, 403, 500}}
    \cup {[status |-> 200, payload |-> k, items |-> <<>>] :
             k \in {"malformed", "array", "no_items", "null_items"}}
    \cup {[status |-> 200, payload |-> "items", items |-> p] : p \in Pages(limit)}

\* all_repos after the body of "for topic in topics" ran on one response
ExtendAllRepos(repos, response) ==
    IF response.status = 200 /\ response.payload = "items"
    THEN repos \o response.items
    ELSE repos

\* elif response.status_code == 403: break
Halts(response) == response.status = 403

\* repo["id"] on an item without that key
DedupRaises(repos) == \E i \in 1..Len(repos) : "id" \notin DOMAIN repos[i]

\* the loop over all_repos with seen_ids
RECURSIVE UniqueFrom(_, _, _)
UniqueFrom(repos, i, unique) ==
    IF i > Len(repos) THEN unique
    ELSE IF \E j \in 1..Len(unique) : unique[j].id = repos[i].id
    THEN UniqueFrom(repos, i + 1, unique)
    ELSE UniqueFrom(repos, i + 1, Append(unique, repos[i]))

KeepAllRepos(repos) == repos

UniqueRepos(repos) == UniqueFrom(repos, 1, <<>>)

\* unique_repos[:limit]
UpToLimit(repos, limit) ==
    SubSeq(repos, 1, IF Len(repos) < limit THEN Len(repos) ELSE limit)

\* the dict startup; repo_id is not a column, it records the item projected
TrendingStartup(repo) ==
    [name |-> Get(repo, "owner", "Unknown"), repo_name |-> Get(repo, "name", ""),
     description |-> Get(repo, "description", "No description available"),
     homepage |-> Get(repo, "homepage", ""),
     stars |-> Get(repo, "stargazers_count", 0), forks |-> Get(repo, "forks_count", 0),
     watchers |-> Get(repo, "watchers_count", 0), repo_id |-> repo.id]

WithMomentumScore(rows) ==
    [i \in 1..Len(rows) |->
        SetKey(rows[i], "momentum_score",
               MomentumScore(rows[i].stars, rows[i].forks, rows[i].watchers))]

\* sort_values("momentum_score", ascending=False): equal scores in any order
RECURSIVE MomentumOrders(_, _)
MomentumOrders(rows, left) ==
    IF left = {} THEN {<<>>}
    ELSE LET top == {i \in left : \A j \in left :
                        rows[i].momentum_score >= rows[j].momentum_score}
         IN  UNION {{<<rows[i]>> \o t : t \in MomentumOrders(rows, left \ {i})} : i \in top}

\* the row sequences the part after the topic loop may return
TrendingResults(repos, limit) ==
    LET picked   == UpToLimit(UniqueRepos(repos), limit)
        startups == [i \in 1..Len(picked) |-> TrendingStartup(picked[i])]
        scored   == WithMomentumScore(startups)
    IN  MomentumOrders(scored, 1..Len(scored))

\* get_trending_startups(topics, limit=limit) up to the topic loop
GetTrendingStartups ==
    /\ trend_pc \in {"idle", "returned", "raised"}
    /\ \E n \in 1..MaxTopics : trend_topics' = TopicsOf(n)
    /\ \E limit \in 1..MaxLimit : trend_limit' = limit
    /\ topic_responses' = <<>>
    /\ all_repos' = <<>>
    /\ trend_result' = <<>>
    /\ trend_exc' = "none"
    /\ trend_pc' = "loop"
    /\ UNCHANGED besideTrend

\* one iteration of "for topic in topics"
RequestTopic ==
    /\ trend_pc = "loop"
    /\ \E response \in TopicResponses(trend_limit) :
        /\ topic_responses' = Append(topic_responses, response)
        /\ all_repos' = ExtendAllRepos(all_repos, response)
        /\ trend_pc' = IF Halts(response) \/ Len(topic_responses) + 1 = Len(trend_topics)
                       THEN "after_loop" ELSE "loop"
    /\ UNCHANGED <<trend_topics, trend_limit, trend_result, trend_exc, besideTrend>>

\* everything after the topic loop
FinishTrending ==
    /\ trend_pc = "after_loop"
    /\ IF all_repos = <<>>
       THEN /\ trend_pc' = "returned"
            /\ trend_result' = <<>>
            /\ trend_exc' = "none"
       ELSE IF DedupRaises(all_repos)
       THEN /\ trend_pc' = "raised"
            /\ trend_result' = <<>>
            /\ trend_exc' = "KeyError"
       ELSE /\ trend_pc' = "returned"
            /\ trend_result' \in TrendingResults(all_repos, trend_limit)
            /\ trend_exc' = "none"
    /\ UNCHANGED <<trend_topics, trend_limit, topic_responses, all_repos, besideTrend>>

\* ------------------------------------------------------ utils.format_funding
Billion == 1000000000
Million == 1000000

\* the amounts format_funding is applied to: 0 to 5,000,000 and 995,000,000
\* to 1,000,000,000 in steps of 50,000 (every second one is half way between
\* two tenths of a million), 1,000,000,000 to 2,000,000,000 in steps of
\* 10,000,000
FundingAmounts ==
    {50000 * k : k \in 0..MaxFundingSteps}
    \cup {Billion - 50000 * k : k \in 0..MaxFundingSteps}
    \cup {Billion + 10000000 * k : k \in 0..MaxFundingSteps}

\* f"{amount / unit:.1f}" as a number of tenths: the nearest tenth; a quotient
\* half way between two tenths goes to either, as its binary representation
\* decides
RoundedTenths(amount, unit) ==
    LET step == unit \div 10
        q    == amount \div step
        rem  == amount % step
    IN  IF 2 * rem < step THEN {q}
        ELSE IF 2 * rem > step THEN {q + 1}
        ELSE {q, q + 1}

\* f"${value:.1f}B" / f"${value:.1f}M" for a value of that many tenths
Shown(tenths, unit) ==
    "$" \o ToString(tenths \div 10) \o "." \o ToString(tenths % 10) \o unit

\* format_funding(amount): the strings it may return
FormatFundingStrict(amount) ==
    IF amount > Billion
    THEN {Shown(t, "B") : t \in RoundedTenths(amount, Billion)}
    ELSE {Shown(t, "M") : t \in RoundedTenths(amount, Million)}

FormatFunding(amount) ==
    IF amount >= Billion
    THEN {Shown(t, "B") : t \in RoundedTenths(amount, Billion)}
    ELSE {Shown(t, "M") : t \in RoundedTenths(amount, Million)}

\* a call format_funding(amount)
CallFormatFunding ==
    /\ \E amount \in FundingAmounts :
        /\ funding_amount' = amount
        /\ funding_text' \in FormatFunding(amount)
    /\ UNCHANGED besideFunding

\* ------------- calculate_growth_metrics / calculate_engagement_score
\* a timestamp, in hours; NaT is what pd.to_datetime makes of an empty or
\* missing date (the projection's default created_at is "")
Date(hour) == [known |-> TRUE, hour |-> hour]
NaT == [known |-> FALSE, hour |-> 0]

\* created two days ago, yesterday, at hour 0, two hours after hour 0, unknown
Dates == {Date(-48), Date(-24), Date(0), Date(2), NaT}

\* rows of a GitHub record set before the growth metrics are computed
RawGitHubRows ==
    {[name |-> "Acme", stars |-> st, forks |-> 10, created_at |-> d] :
        st \in {0, 120}, d \in Dates}

\* rows of a Product Hunt record set before the engagement metrics
RawProductHuntRows ==
    {[name |-> "Gamma", upvotes |-> up, comments |-> 7, launch_date |-> d] :
        up \in {0, 50}, d \in Dates}

\* a float: the quotient num / den, or NaN
Quotient(num, den) == [nan |-> FALSE, num |-> num, den |-> den]
NaNFloat == [nan |-> TRUE, num |-> 0, den |-> 1]

\* (now - date).dt.days: whole days, rounded down; NaN for NaT
DtDays(clock, date) ==
    IF date.known THEN Quotient((clock - date.hour) \div 24, 1) ELSE NaNFloat

\* Series.replace(0, 1) at one cell
Replace0By1(days) ==
    IF ~days.nan /\ days.num = 0 THEN Quotient(1, 1) ELSE days

\* count / divisor at one cell: NaN for a NaN divisor, inf (or NaN for 0/0)
\* for a divisor 0
Divide(count, divisor) ==
    IF divisor.nan THEN NaNFloat
    ELSE IF divisor.num = 0 THEN [nan |-> (count = 0), num |-> count, den |-> 0]
    ELSE Quotient(count, divisor.num)

\* calculate_growth_metrics(df) at one row
GrowthMetrics(r, clock) ==
    LET days_old == DtDays(clock, r.created_at)
    IN  r @@ [days_old |-> days_old,
              star_velocity |-> Divide(r.stars, Replace0By1(days_old)),
              fork_ratio |-> Divide(r.forks, Replace0By1(Quotient(r.stars, 1)))]

\* calculate_engagement_score(df) at one row; engagement_score in whole units
EngagementScore(r, clock) ==
    LET days_since_launch == DtDays(clock, r.launch_date)
    IN  r @@ [engagement_score |-> r.upvotes + 2 * r.comments,
              days_since_launch |-> days_since_launch,
              upvotes_per_day |-> Divide(r.upvotes, Replace0By1(days_since_launch))]

\* a call calculate_growth_metrics(df); an empty df is returned as it is
CalculateGrowthMetrics ==
    /\ \E rows \in SeqUpTo(RawGitHubRows, MaxRateRows), clock \in 0..MaxClock :
        /\ rates_input' = rows
        /\ rates_now' = clock
        /\ rates_output' = [i \in 1..Len(rows) |-> GrowthMetrics(rows[i], clock)]
    /\ rates_call' = "growth"
    /\ UNCHANGED besideRates

\* a call calculate_engagement_score(df)
CalculateEngagementScore ==
    /\ \E rows \in SeqUpTo(RawProductHuntRows, MaxRateRows), clock \in 0..MaxClock :
        /\ rates_input' = rows
        /\ rates_now' = clock
        /\ rates_output' = [i \in 1..Len(rows) |-> EngagementScore(rows[i], clock)]
    /\ rates_call' = "engagement"
    /\ UNCHANGED besideRates

\* ------------------------------- HybridStartupFetcher.fetch_all_sources
SourceNames == {"github", "producthunt"}

TagOf(source) == IF source = "github" THEN "GitHub API" ELSE "Product Hunt"

\* no cache file and no sidecar
NoCache == [csv |-> [exists |-> FALSE, content |-> EmptyFrame],
            meta |-> [exists |-> FALSE, last_updated |-> 0, record_count |-> 0,
                      source |-> ""]]

\* what a call has done for one source: whether load_from_cache was called
\* and what it returned, whether a fresh fetch was issued and what it gave,
\* whether save_to_cache was called, whether results holds the source
NoCall == [read |-> FALSE, loaded |-> NoneFrame, fetched |-> FALSE,
           fresh |-> EmptyFrame, saved |-> FALSE, in_results |-> FALSE]

FetchArgs ==
    [use_github : BOOLEAN, use_producthunt : BOOLEAN, use_cache : BOOLEAN,
     cache_max_age_hours : 0..MaxAge]

NoFetchArgs == [use_github |-> TRUE, use_producthunt |-> TRUE, use_cache |-> TRUE,
                cache_max_age_hours |-> 0]

\* get_trending_startups(...): an empty record set, a non-empty one, or the
\* KeyError of an item without an id
GitHubFetches ==
    {[exc |-> "KeyError", df |-> EmptyFrame], [exc |-> "none", df |-> EmptyFrame]}
    \cup {[exc |-> "none", df |-> df] : df \in CachedFrames}

\* create_sample_ph_data(): the bundled products, never an empty set
CreateSamplePhData == [exc |-> "none", df |-> RangeIndexFrame(MaxStartups)]

\* save_to_cache(df) of one source: the CSV file, then the sidecar
SaveToCache(df, clock, tag) ==
    [csv |-> [exists |-> TRUE, content |-> ToCsv(df)],
     meta |-> [exists |-> TRUE, last_updated |-> clock, record_count |-> Len(df.rows),
               source |-> tag]]

\* "if not github_df.empty" / "if not ph_df.empty"
SavesWhatever(df) == TRUE

SavesFetched(df) == df.rows # <<>>

\* the part of fetch_all_sources for one source, its fresh fetch giving fresh:
\* [exc, call, cache]
SourcePart(source, a, cache, clock, fresh) ==
    LET loaded == IF a.use_cache
                  THEN LoadFromCacheResult(cache.csv, cache.meta, clock,
                                           a.cache_max_age_hours)
                  ELSE NoneFrame
    IN  IF ~(loaded.is_none \/ loaded.df.rows = <<>>)
        THEN [exc |-> "none", cache |-> cache,
              call |-> [NoCall EXCEPT !.read = a.use_cache, !.loaded = loaded,
                                      !.in_results = TRUE]]
        ELSE IF fresh.exc # "none"
        THEN [exc |-> fresh.exc, cache |-> cache,
              call |-> [NoCall EXCEPT !.read = a.use_cache, !.loaded = loaded,
                                      !.fetched = TRUE]]
        ELSE [exc |-> "none",
              cache |-> IF SavesFetched(fresh.df)
                        THEN SaveToCache(fresh.df, clock, TagOf(source))
                        ELSE cache,
              call |-> [NoCall EXCEPT !.read = a.use_cache, !.loaded = loaded,
                                      !.fetched = TRUE, !.fresh = fresh.df,
                                      !.saved = SavesFetched(fresh.df),
                                      !.in_results = TRUE]]

\* a call fetch_all_sources(use_github, use_producthunt, use_cache, ...)
FetchAllSources ==
    /\ src_pc \in {"idle", "returned", "raised"}
    /\ \E a \in FetchArgs : src_args' = a
    /\ src_pc' = "github"
    /\ src_before' = src_cache
    /\ src_calls' = [source \in SourceNames |-> NoCall]
    /\ UNCHANGED <<src_cache, src_clock, besideSources>>

\* "if use_github:" and its block
GitHubPart ==
    /\ src_pc = "github"
    /\ IF ~src_args.use_github
       THEN /\ src_pc' = "producthunt"
            /\ UNCHANGED <<src_cache, src_calls>>
       ELSE \E fresh \in GitHubFetches :
              LET part == SourcePart("github", src_args, src_cache.github, src_clock,
                                     fresh)
              IN  /\ src_pc' = IF part.exc = "none" THEN "producthunt" ELSE "raised"
                  /\ src_cache' = [src_cache EXCEPT !.github = part.cache]
                  /\ src_calls' = [src_calls EXCEPT !.github = part.call]
    /\ UNCHANGED <<src_args, src_before, src_clock, besideSources>>

\* "if use_producthunt:" and its block, then "return results"
ProductHuntPart ==
    /\ src_pc = "producthunt"
    /\ IF ~src_args.use_producthunt
       THEN UNCHANGED <<src_cache, src_calls>>
       ELSE LET part == SourcePart("producthunt", src_args, src_cache.producthunt,
                                   src_clock, CreateSamplePhData)
            IN  /\ src_cache' = [src_cache EXCEPT !.producthunt = part.cache]
                /\ src_calls' = [src_calls EXCEPT !.producthunt = part.call]
    /\ src_pc' = "returned"
    /\ UNCHANGED <<src_args, src_before, src_clock, besideSources>>

\* an hour passes
SourcesTick ==
    /\ src_clock < MaxClock
    /\ src_clock' = src_clock + 1
    /\ UNCHANGED <<src_pc, src_args, src_cache, src_before, src_calls, besideSources>>

\* ----------------------------------------------------------- idle components
MergeIdle ==
    /\ github_df = <<>> /\ ph_df = <<>> /\ merged_df = EmptyFrame
    /\ enrichment_df = EmptyFrame /\ enriched_df = EmptyFrame
    /\ merge_pc = "start" /\ merge_exc = "none"

CatIdle ==
    /\ startups_df = EmptyFrame /\ response_text = <<>> /\ categorized_df = <<>>
    /\ startups_list = <<>> /\ cat_categories = NotParsed
    /\ cat_api = "not_called" /\ cat_pc = "start" /\ cat_exc = "none"

MainIdle ==
    /\ main_pc = "idle" /\ args = NoArgs /\ main_df = EmptyFrame
    /\ cache_file = NoFile /\ cache_before = NoFile
    /\ service_calls = 0 /\ dashboard_df = EmptyFrame
    /\ ended_by = "running" /\ exit_code = Running

RemoteIdle ==
    /\ remote_pc = "idle" /\ remote_args = [csv_url |-> "", use_cache |-> TRUE]
    /\ remote_cache = NoFile /\ remote_meta = NoMeta
    /\ url_requests = 0 /\ url_response = NoResponse /\ fetched = NoneFrame
    /\ remote_result = EmptyFrame /\ remote_from = "none"

CacheIdle ==
    /\ cache_owner = "GitHub API" /\ save_pc = "idle"
    /\ csv_file = NoCsv /\ meta_file = NoSidecar
    /\ now = 0 /\ saves = 0 /\ load_max_age = 0 /\ load_result = NoneFrame
    /\ load_seen = [csv |-> NoCsv, meta |-> NoSidecar, clock |-> 0]

TrendIdle ==
    /\ trend_pc = "idle" /\ trend_topics = <<>> /\ trend_limit = 1
    /\ topic_responses = <<>> /\ all_repos = <<>> /\ trend_result = <<>>
    /\ trend_exc = "none"

FundingIdle == funding_amount = 0 /\ funding_text = ""

RatesIdle ==
    /\ rates_call = "none" /\ rates_now = 0 /\ rates_input = <<>> /\ rates_output = <<>>

SourcesIdle ==
    /\ src_pc = "idle" /\ src_args = NoFetchArgs /\ src_clock = 0
    /\ src_cache = [source \in SourceNames |-> NoCache]
    /\ src_before = [source \in SourceNames |-> NoCache]
    /\ src_calls = [source \in SourceNames |-> NoCall]

FetchIdle ==
    RemoteIdle /\ CacheIdle /\ TrendIdle /\ FundingIdle /\ RatesIdle /\ SourcesIdle

\* ------------------------------------------------------------- SpecMerge
InitMerge == MergeIdle /\ CatIdle /\ MainIdle /\ FetchIdle

NextMerge == MergeDatasets \/ ApplyManualEnrichment

SpecMerge == InitMerge /\ [][NextMerge]_vars

\* --------------------------------------------------------------- SpecCat
InitCat == MergeIdle /\ CatIdle /\ MainIdle /\ FetchIdle

NextCat == Categorize

SpecCat == InitCat /\ [][NextCat]_vars

\* -------------------------------------------------------------- SpecMain
InitMain == MergeIdle /\ CatIdle /\ MainIdle /\ FetchIdle

NextMain ==
    \/ StartRun
    \/ CheckApiKey
    \/ LoadData
    \/ CategorizeAndSave
    \/ LoadCached
    \/ NoDashboard
    \/ LaunchDashboard

SpecMain == InitMain /\ [][NextMain]_vars

\* ------------------------------------------------------------ SpecRemote
InitRemote == MergeIdle /\ CatIdle /\ MainIdle /\ FetchIdle

NextRemote == LoadFromCsvUrl \/ FetchFresh \/ ReturnFetchedOrFallBack

SpecRemote == InitRemote /\ [][NextRemote]_vars

\* ------------------------------------------------------------- SpecCache
\* the cache directory of either fetcher, empty at first
InitCache ==
    /\ MergeIdle /\ CatIdle /\ MainIdle /\ RemoteIdle /\ TrendIdle /\ FundingIdle
    /\ RatesIdle /\ SourcesIdle
    /\ cache_owner \in SourceTags /\ save_pc = "idle"
    /\ csv_file = NoCsv /\ meta_file = NoSidecar
    /\ now = 0 /\ saves = 0 /\ load_max_age = 0 /\ load_result = NoneFrame
    /\ load_seen = [csv |-> NoCsv, meta |-> NoSidecar, clock |-> 0]

NextCache ==
    \/ SaveToCacheCsv
    \/ SaveToCacheSidecar
    \/ SaveToCacheFails
    \/ LoadFromCache
    \/ Tick

SpecCache == InitCache /\ [][NextCache]_vars

\* ---------------------------------------------------------- SpecTrending
InitTrending == MergeIdle /\ CatIdle /\ MainIdle /\ FetchIdle

NextTrending == GetTrendingStartups \/ RequestTopic \/ FinishTrending

SpecTrending == InitTrending /\ [][NextTrending]_vars

\* ----------------------------------------------------------- SpecFunding
InitFunding == MergeIdle /\ CatIdle /\ MainIdle /\ FetchIdle

NextFunding == CallFormatFunding

SpecFunding == InitFunding /\ [][NextFunding]_vars

\* ------------------------------------------------------------- SpecRates
InitRates == MergeIdle /\ CatIdle /\ MainIdle /\ FetchIdle

NextRates == CalculateGrowthMetrics \/ CalculateEngagementScore

SpecRates == InitRates /\ [][NextRates]_vars

\* ----------------------------------------------------------- SpecSources
InitSources == MergeIdle /\ CatIdle /\ MainIdle /\ FetchIdle

NextSources == FetchAllSources \/ GitHubPart \/ ProductHuntPart \/ SourcesTick

SpecSources == InitSources /\ [][NextSources]_vars

\* ================================================================ claims
\* ---------------------------------------------------------------- SpecMerge
HasDuplicateName(rows) ==
    \E i, j \in 1..Len(rows) : i # j /\ Lower(rows[i].name) = Lower(rows[j].name)

\* C1: the table merge_datasets returns holds no two records whose names are
\* equal ignoring case, whatever the two input record sets are (also when two
\* GitHub records carry the same name up to letter case).
C1_NamesUniqueIgnoringCase ==
    merge_pc = "merged" => ~HasDuplicateName(merged_df.rows)

\* C2: for a non-empty GitHub set and an empty Product Hunt set merge_datasets
\* returns without raising, with one projected record per GitHub record and
\* combined_momentum equal to momentum_score on every record.
C2_GitHubOnlyMerge ==
    (merge_pc \in {"merged", "merge_raised"} /\ github_df # <<>> /\ ph_df = <<>>) =>
        /\ merge_pc = "merged"
        /\ Len(merged_df.rows) = Len(github_df)
        /\ \A i \in 1..Len(merged_df.rows) :
            /\ "combined_momentum" \in DOMAIN merged_df.rows[i]
            /\ merged_df.rows[i].combined_momentum = merged_df.rows[i].momentum_score
            /\ \E j \in 1..Len(github_df) :
                  \A c \in DOMAIN GitHubStartup(github_df[j]) :
                      merged_df.rows[i][c] = GitHubStartup(github_df[j])[c]

\* C3: when a Product Hunt record's name equals, ignoring case, the name of a
\* GitHub record, the merged table has exactly one record of that name, and it
\* carries that GitHub record's github_stars and that Product Hunt record's
\* ph_upvotes.
C3_MatchedRecordIsSingleAndCarriesBoth ==
    merge_pc = "merged" =>
        \A i \in 1..Len(ph_df), j \in 1..Len(github_df) :
            Lower(ph_df[i].name) = Lower(github_df[j].name) =>
                LET hits == {k \in 1..Len(merged_df.rows) :
                                Lower(merged_df.rows[k].name) = Lower(ph_df[i].name)}
                IN  /\ Cardinality(hits) = 1
                    /\ \A k \in hits :
                        /\ merged_df.rows[k].github_stars = github_df[j].stars
                        /\ "ph_upvotes" \in DOMAIN merged_df.rows[k]
                        /\ merged_df.rows[k].ph_upvotes = ph_df[i].upvotes

\* C4: on every record of the table merge_datasets returns, combined_momentum
\* is momentum_score + 0.5*ph_upvotes + 1.0*ph_comments with an absent Product
\* Hunt field counting as 0 (in half units: momentum_score + ph_upvotes +
\* 2*ph_comments); GitHub {Acme, 142.5} merged with Product Hunt {acme, 50
\* upvotes, 4 comments} gives one record with 171.5 (343 half units).
C4_CombinedMomentumFormula ==
    merge_pc = "merged" =>
        /\ \A i \in 1..Len(merged_df.rows) :
            LET r == merged_df.rows[i]
                up == IF "ph_upvotes" \in DOMAIN r THEN r.ph_upvotes ELSE 0
                co == IF "ph_comments" \in DOMAIN r THEN r.ph_comments ELSE 0
            IN  /\ "combined_momentum" \in DOMAIN r
                /\ r.combined_momentum = r.momentum_score + up + 2 * co
        /\ ( /\ Len(github_df) = 1 /\ github_df[1].name = "Acme"
             /\ Len(ph_df) = 1 /\ ph_df[1].name = "acme" ) =>
                /\ Len(merged_df.rows) = 1
                /\ merged_df.rows[1].name = "Acme"
                /\ merged_df.rows[1].momentum_score = 285
                /\ merged_df.rows[1].combined_momentum = 343

\* a merged record with both Product Hunt signals beside a GitHub-only record
\* whose Product Hunt cells are absent
C4_Witness ==
    /\ merge_pc = "merged"
    /\ \E i, j \in 1..Len(merged_df.rows) :
        /\ merged_df.rows[i].combined_momentum = 343
        /\ merged_df.rows[i].momentum_score = 285
        /\ "ph_upvotes" \notin DOMAIN merged_df.rows[j]
        /\ merged_df.rows[j].momentum_score > 0

\* the records of rows whose name equals name ignoring case
SameNameIgnoringCase(rows, name) ==
    {k \in 1..Len(rows) : Lower(rows[k].name) = Lower(name)}

\* C5 as stated: after apply_manual_enrichment, every record matched by an
\* enrichment row holds that row's value in each enrichment column of the
\* table (funding_total among them), for every enrichment row.
C5_EveryMatchingRowOverwrites ==
    merge_pc = "enriched" =>
        \A i \in 1..Len(enrichment_df.rows) :
            \A k \in SameNameIgnoringCase(merged_df.rows, enrichment_df.rows[i].name) :
                \A c \in (enrichment_df.columns \ {"name"}) \cap merged_df.columns :
                    /\ c \in DOMAIN enriched_df.rows[k]
                    /\ enriched_df.rows[k][c] = enrichment_df.rows[i][c]

\* the enrichment row i is the last one of its name (ignoring case)
LastOfItsName(rows, i) ==
    \A j \in (i + 1)..Len(rows) : Lower(rows[j].name) # Lower(rows[i].name)

\* C5 (amended): after apply_manual_enrichment, every record matched by an
\* enrichment row holds, in each enrichment column the merged table already
\* has (funding_total always is one), the value of the last enrichment row of
\* that name, whatever the record held before.
C5_LastMatchingRowOverwritesTableColumns ==
    merge_pc = "enriched" =>
        \A i \in 1..Len(enrichment_df.rows) :
            LastOfItsName(enrichment_df.rows, i) =>
                \A k \in SameNameIgnoringCase(merged_df.rows, enrichment_df.rows[i].name) :
                    /\ "funding_total" \in merged_df.columns
                    /\ \A c \in (enrichment_df.columns \ {"name"}) \cap merged_df.columns :
                        /\ c \in DOMAIN enriched_df.rows[k]
                        /\ enriched_df.rows[k][c] = enrichment_df.rows[i][c]
                    /\ enriched_df.rows[k].name = merged_df.rows[k].name

\* a record whose funding_total was 0 holds the enrichment row's 5000000
C5_Witness ==
    /\ merge_pc = "enriched"
    /\ \E k \in 1..Len(enriched_df.rows) :
        /\ merged_df.rows[k].funding_total = 0
        /\ enriched_df.rows[k].funding_total = 5000000
        /\ enriched_df.rows[k].location = "Berlin"
        /\ enriched_df.rows[k].name # "acme"

\* C6: enrichment rows that match no record of the merged table leave it
\* unchanged and apply_manual_enrichment does not raise, for every merged
\* table including the empty one.
C6_UnmatchedRowsLeaveTableUnchanged ==
    ( /\ merge_pc \in {"enriched", "enrich_raised"}
      /\ \A i \in 1..Len(enrichment_df.rows) :
            \A k \in 1..Len(merged_df.rows) :
                Lower(merged_df.rows[k].name) # Lower(enrichment_df.rows[i].name) ) =>
        /\ merge_pc = "enriched"
        /\ merge_exc = "none"
        /\ enriched_df = merged_df

\* ------------------------------------------------------------------ SpecCat
\* the text holds a well-formed [...] somewhere
HasArrayLiteral(text) ==
    \E i, j \in 1..Len(text) :
        /\ i < j /\ text[i] = "[" /\ text[j] = "]"
        /\ ElementsParse(SubSeq(text, i + 1, j - 1))

\* C7: for every response text without an array literal (empty, prose, a JSON
\* object or scalar) categorize_startups returns, no exception escapes, and
\* every record of the returned table has category "Other".
C7_NoArrayLiteralGivesOther ==
    ( /\ cat_pc \in {"returned", "raised"}
      /\ cat_api = "ok"
      /\ ~HasArrayLiteral(response_text) ) =>
        /\ cat_pc = "returned"
        /\ \A i \in 1..Len(categorized_df) : categorized_df[i].category = "Other"

\* the label items of the parsed response whose id is id
ItemsWithId(text, id) ==
    LET items == Iterated(ParseCategorizationResponse(text))
    IN  {ItemOf(items[k]) : k \in {n \in 1..Len(items) : items[n] \in ItemTokens
                                                        /\ ItemOf(items[n]).id = id}}

\* C8: in the table categorize_startups returns, a record whose id does not
\* occur in the parsed response has category "Other", subcategory "" and
\* themes "", and a record whose id occurs has the labels of an item of that id.
C8_UnlabelledRecordsDefault ==
    (cat_pc = "returned" /\ cat_api = "ok") =>
        \A i \in 1..Len(startups_df.rows) :
            LET items == ItemsWithId(response_text, startups_df.rows[i].index)
                r == categorized_df[i]
            IN  IF items = {}
                THEN r.category = "Other" /\ r.subcategory = "" /\ r.themes = ""
                ELSE \E item \in items :
                        /\ r.category = Get(item, "category", "Other")
                        /\ r.subcategory = Get(item, "subcategory", "")
                        /\ r.themes = Join(Get(item, "themes", <<>>))

\* ----------------------------------------------------------------- SpecMain
DashboardHanded == ended_by \in {"dashboard_interrupted", "dashboard_failed", "dashboard_returned"}

\* C9 as stated: main exits with code 1 exactly when the credential is missing
\* or categorization fails, and with code 0 in every other run (a dashboard
\* that fails to launch included).
C9_ExitOneOnlyForCredentialOrCategorization ==
    main_pc = "exited" =>
        /\ exit_code \in {0, 1}
        /\ exit_code = 1 <=> (~args.api_key \/ ended_by = "categorization_failed")

\* C9 (amended): main exits with code 1 exactly when the credential is
\* missing, data loading raises (DATA_SOURCE=url without a URL), categorization
\* fails, or the dashboard raises an exception other than the operator's
\* interrupt; it ends with code 0 when it returns for --no-dashboard, when the
\* dashboard is interrupted and when dashboard.run returns.
C9_ExitCodes ==
    main_pc = "exited" =>
        /\ exit_code \in {0, 1}
        /\ exit_code = 1 <=>
            \/ ~args.api_key
            \/ LoadDataRaises(args)
            \/ ended_by = "categorization_failed"
            \/ ended_by = "dashboard_failed"
        /\ exit_code = 0 <=>
            \/ ended_by = "no_dashboard" /\ args.no_dashboard
            \/ ended_by = "dashboard_interrupted" /\ ~args.no_dashboard
            \/ ended_by = "dashboard_returned" /\ ~args.no_dashboard
        /\ ~args.api_key => ended_by = "missing_credential"
        /\ ended_by = "categorization_failed" =>
            (args.recategorize \/ ~cache_before.exists) /\ cache_file = cache_before

\* a run whose dashboard failed to launch ended with status 1
C9_Witness ==
    /\ main_pc = "exited"
    /\ ended_by = "dashboard_failed"
    /\ exit_code = 1
    /\ args.api_key
    /\ ~DashboardInitRaises(dashboard_df)

\* C10 as stated: in a run that passes the credential check the completion
\* service is called if and only if --recategorize is given or the cache file
\* does not exist; when it is not called the dashboard gets the table read
\* from the cache file.
C10_ServiceCalledIffNoCacheOrForced ==
    (main_pc = "exited" /\ args.api_key) =>
        /\ service_calls > 0 <=> (args.recategorize \/ ~cache_before.exists)
        /\ (service_calls = 0 /\ DashboardHanded) =>
                dashboard_df = ReadCsv(cache_before.content)

\* C10 (amended): in a run that passes the credential check the completion
\* service is called at most once, and only if --recategorize is given or the
\* cache file does not exist; in that case it is called unless data loading
\* raised first or the loaded table is non-empty and lacks the name or the
\* description column (KeyError while the request is built).  When it is not
\* called, the table handed to the dashboard is the one read from the cache
\* file, which the run leaves as it was.
C10_ServiceCalledOnlyIfNoCacheOrForced ==
    (main_pc = "exited" /\ args.api_key) =>
        /\ service_calls \in {0, 1}
        /\ service_calls = 1 => (args.recategorize \/ ~cache_before.exists)
        /\ ((args.recategorize \/ ~cache_before.exists) /\ service_calls = 0) =>
            \/ LoadDataRaises(args)
            \/ /\ ended_by = "categorization_failed"
               /\ main_df.rows # <<>>
               /\ ~({"name", "description"} \subseteq main_df.columns)
        /\ (service_calls = 0 /\ DashboardHanded) =>
            /\ cache_before.exists
            /\ dashboard_df = ReadCsv(cache_before.content)
            /\ cache_file = cache_before

\* a run that found the cache, did not call the service and showed the cached table
C10_Witness ==
    /\ main_pc = "exited"
    /\ args.api_key /\ ~args.recategorize
    /\ cache_before.exists
    /\ service_calls = 0
    /\ ended_by = "dashboard_returned"
    /\ dashboard_df.rows # <<>>
    /\ dashboard_df = ReadCsv(cache_before.content)

\* the positions of the Product Hunt rows that are the first (the last) of
\* their name, ignoring case
FirstOfName(rows) ==
    {i \in 1..Len(rows) : \A j \in 1..(i - 1) : Lower(rows[j].name) # Lower(rows[i].name)}

LastOfName(rows) ==
    {i \in 1..Len(rows) :
        \A j \in (i + 1)..Len(rows) : Lower(rows[j].name) # Lower(rows[i].name)}

\* merge_datasets has returned a table
MergeReturned == merge_pc \in {"merged", "enriched", "enrich_raised"}

KeepsGitHubRow(r, g) ==
    /\ r.source = "GitHub"
    /\ r.name = g.name
    /\ r.github_stars = g.stars
    /\ r.github_forks = g.forks
    /\ r.momentum_score = g.momentum_score

\* C20: a record into which merge_datasets merged a Product Hunt record keeps
\* its source tag and its name (a GitHub-origin record stays tagged GitHub
\* with the GitHub spelling) and its github_stars, github_forks and
\* momentum_score; a Product Hunt-origin record keeps the tag, the first
\* spelling and the zero counts.
C20_MergeKeepsSourceNameAndCounts ==
    MergeReturned =>
        /\ \A i \in 1..Len(github_df) : \E k \in 1..Len(merged_df.rows) :
                KeepsGitHubRow(merged_df.rows[k], github_df[i])
        /\ \A k \in 1..Len(merged_df.rows) :
            LET r == merged_df.rows[k]
            IN  /\ (r.source = "GitHub") =>
                        \E i \in 1..Len(github_df) : KeepsGitHubRow(r, github_df[i])
                /\ (r.source # "GitHub") =>
                        /\ r.source = "Product Hunt"
                        /\ r.github_stars = 0 /\ r.github_forks = 0 /\ r.momentum_score = 0
                        /\ \E i \in FirstOfName(ph_df) : r.name = ph_df[i].name
        /\ Cardinality({k \in 1..Len(merged_df.rows) : merged_df.rows[k].source = "GitHub"})
                = Len(github_df)

\* the GitHub record Acme took the 50 upvotes of the Product Hunt record acme
\* and kept its tag, spelling and counts
C20_Witness ==
    /\ merge_pc = "merged"
    /\ \E k \in 1..Len(merged_df.rows) :
        /\ merged_df.rows[k].name = "Acme"
        /\ merged_df.rows[k].source = "GitHub"
        /\ merged_df.rows[k].ph_upvotes = 50
        /\ merged_df.rows[k].github_stars = 120
        /\ merged_df.rows[k].github_forks = 10
        /\ merged_df.rows[k].momentum_score = 285
        /\ merged_df.rows[k].website = "https://acme.ph"

\* a value that is empty or missing: "", None or NaN
EmptyOrMissing(v) == v \in {"", None, NaN}

\* C21: when merge_datasets merges a Product Hunt record into a GitHub-origin
\* record, website and description are taken from the Product Hunt record if
\* and only if the GitHub-origin value is empty or missing (stated for a
\* GitHub record that is the only one of its name and is matched by exactly
\* one Product Hunt record).
C21_BackfillIffEmptyOrMissing ==
    MergeReturned =>
        \A i \in 1..Len(github_df) : \A j \in 1..Len(ph_df) :
            ( /\ SameNameIgnoringCase(github_df, github_df[i].name) = {i}
              /\ SameNameIgnoringCase(ph_df, github_df[i].name) = {j} ) =>
                \E k \in 1..Len(merged_df.rows) :
                    LET r == merged_df.rows[k]
                    IN  /\ r.source = "GitHub"
                        /\ r.name = github_df[i].name
                        /\ r.website = IF EmptyOrMissing(github_df[i].homepage)
                                       THEN ph_df[j].website
                                       ELSE github_df[i].homepage
                        /\ r.description = IF EmptyOrMissing(github_df[i].description)
                                           THEN ph_df[j].tagline
                                           ELSE github_df[i].description

\* the numeric columns of the merged table
NumericColumns ==
    {"github_stars", "github_forks", "star_velocity", "momentum_score",
     "ph_upvotes", "ph_comments", "funding_total", "combined_momentum"}

\* C22: in every table merge_datasets returns, every record has a defined
\* value in each numeric column; no cell there is missing, also for
\* GitHub-only records beside Product Hunt records.
C22_NoMissingNumericValue ==
    MergeReturned =>
        \A k \in 1..Len(merged_df.rows) :
            \A c \in NumericColumns :
                /\ c \in DOMAIN merged_df.rows[k]
                /\ merged_df.rows[k][c] \in Int

\* ---------------------------------------------------------------- SpecRemote
\* C11: load_from_csv_url requests the remote URL at most once per call; when
\* that request fails the call returns the cached record set if the cache
\* file exists and the bundled sample data otherwise; it ends in a return,
\* never in an exception, and a call that made no request answered from the
\* cache.
C11_AtMostOneRequestThenFallBack ==
    /\ url_requests <= 1
    /\ remote_pc \in {"idle", "fetch", "after_fetch", "returned"}
    /\ (remote_pc = "after_fetch") => (url_requests = 1 /\ url_response.kind # "none")
    /\ (remote_pc = "returned" /\ url_requests = 1 /\ url_response.kind # "CSV") =>
            /\ remote_result = IF remote_cache.exists
                               THEN ReadCsv(remote_cache.content)
                               ELSE RangeIndexFrame(MaxStartups)
            /\ remote_from = IF remote_cache.exists THEN "fallback_cache" ELSE "sample"
    /\ (remote_pc = "returned" /\ url_requests = 0) => remote_from = "cache_hit"

\* a call whose single request timed out returned the records cached by an
\* earlier call
C11_Witness ==
    /\ remote_pc = "returned"
    /\ url_requests = 1
    /\ url_response.kind = "Timeout"
    /\ remote_cache.exists
    /\ remote_from = "fallback_cache"
    /\ Len(remote_result.rows) = 2
    /\ remote_result.rows[1].description = NaN

\* ----------------------------------------------------------------- SpecCache
\* the CSV file comes from a later save than the sidecar beside it
NewRecordsOldSidecar(csv, meta) ==
    csv.exists /\ meta.exists /\ csv.generation > meta.generation

\* C12: save_to_cache replaces the cache file and its sidecar as one step:
\* neither after a save_to_cache call has ended (normally or by a failure
\* between the two writes) nor for a load_from_cache call does the cache file
\* hold the new record set beside the sidecar of the previous save.
C12_CacheAndSidecarReplacedAsOne ==
    /\ (save_pc = "idle") => ~NewRecordsOldSidecar(csv_file, meta_file)
    /\ ~NewRecordsOldSidecar(load_seen.csv, load_seen.meta)

\* C13: load_from_cache(max_age) returns the cached record set if and only if
\* the cache file exists, the sidecar exists and the time elapsed since the
\* sidecar's last_updated is at most max_age; otherwise it returns None.
C13_LoadFromCacheIffFresh ==
    /\ (~load_result.is_none) <=>
            ( /\ load_seen.csv.exists
              /\ load_seen.meta.exists
              /\ load_seen.clock - load_seen.meta.last_updated <= load_max_age )
    /\ (~load_result.is_none) => load_result.df = ReadCsv(load_seen.csv.content)
    /\ load_result.is_none => load_result.df = EmptyFrame

\* a call made exactly max_age hours after the save returned the two cached
\* records
C13_Witness ==
    /\ ~load_result.is_none
    /\ load_max_age = 2
    /\ load_seen.clock - load_seen.meta.last_updated = 2
    /\ Len(load_result.df.rows) = 2
    /\ load_seen.meta.source = "Product Hunt"

\* -------------------------------------------------------------- SpecTrending
\* the repository ids the topics visited before position k answered with
IdsBefore(responses, k) ==
    UNION {{responses[t].items[i].id :
               i \in {x \in 1..Len(responses[t].items) :
                          "id" \in DOMAIN responses[t].items[x]}} :
           t \in 1..(k - 1)}

\* the repository ids of the rows
IdsOf(rows) == {rows[i].repo_id : i \in 1..Len(rows)}

\* C14: get_trending_startups never raises to its caller, whatever each
\* topic's request ended in (timeout, non-2xx status, malformed JSON, a 2xx
\* payload of unexpected shape such as items without an id); it returns a
\* record set, empty when no topic yielded a usable item.
C14_GetTrendingStartupsNeverRaises ==
    /\ trend_pc # "raised"
    /\ (trend_pc = "returned" /\ IdsBefore(topic_responses, Len(topic_responses) + 1) = {})
            => trend_result = <<>>

\* C15: when the request of topic k is answered with status 403, no request
\* is issued for a later topic of the call, and the call returns the records
\* collected from the topics before k instead of failing.
C15_RateLimitHaltsAndReturnsCollected ==
    \A k \in 1..Len(topic_responses) :
        topic_responses[k].status = 403 =>
            /\ Len(topic_responses) = k
            /\ trend_pc \in {"after_loop", "returned"}
            /\ (trend_pc = "returned") =>
                    /\ IdsOf(trend_result) \subseteq IdsBefore(topic_responses, k)
                    /\ (Cardinality(IdsBefore(topic_responses, k)) <= trend_limit) =>
                            IdsOf(trend_result) = IdsBefore(topic_responses, k)

\* C16: the record set get_trending_startups returns holds at most one
\* record per repository id, whichever topics answered with that repository
\* and in whatever order, and every repository id some topic answered with
\* is represented unless the limit cuts it off.
C16_OneRecordPerRepositoryId ==
    (trend_pc = "returned") =>
        LET ids == IdsBefore(topic_responses, Len(topic_responses) + 1)
        IN  /\ \A i, j \in 1..Len(trend_result) :
                    i # j => trend_result[i].repo_id # trend_result[j].repo_id
            /\ IdsOf(trend_result) \subseteq ids
            /\ Len(trend_result) =
                    IF Cardinality(ids) < trend_limit THEN Cardinality(ids) ELSE trend_limit
            /\ (Cardinality(ids) <= trend_limit) => IdsOf(trend_result) = ids

\* two topics both answered with repository 1, which is returned once beside
\* repository 2
C16_Witness ==
    /\ trend_pc = "returned"
    /\ Len(topic_responses) = 2
    /\ \A t \in 1..2 : \E i \in 1..Len(topic_responses[t].items) :
            /\ "id" \in DOMAIN topic_responses[t].items[i]
            /\ topic_responses[t].items[i].id = 1
    /\ Len(all_repos) = 3
    /\ Len(trend_result) = 2
    /\ IdsOf(trend_result) = {1, 2}

\* C17: every record get_trending_startups returns has momentum_score =
\* stars*1.0 + forks*2.0 + watchers*0.5 (held in half units), which is not
\* negative, and the records come in non-increasing order of momentum_score.
C17_MomentumScoreFormulaAndOrder ==
    (trend_pc = "returned") =>
        /\ \A i \in 1..Len(trend_result) :
            LET r == trend_result[i]
            IN  /\ r.momentum_score = 2 * r.stars + 4 * r.forks + r.watchers
                /\ r.momentum_score >= 0
                /\ (r.repo_id = 1) =>
                        (r.stars = 120 /\ r.forks = 10 /\ r.watchers = 5
                         /\ r.momentum_score = 285)
                /\ (r.repo_id = 2) => r.momentum_score = 400
        /\ \A i, j \in 1..Len(trend_result) :
                i < j => trend_result[i].momentum_score >= trend_result[j].momentum_score

\* repository 1 (142.5) arrived before repository 2 (200.0) and is returned
\* after it
C17_Witness ==
    /\ trend_pc = "returned"
    /\ Len(all_repos) >= 2
    /\ all_repos[1].id = 1
    /\ Len(trend_result) = 2
    /\ trend_result[1].repo_id = 2 /\ trend_result[1].momentum_score = 400
    /\ trend_result[2].repo_id = 1 /\ trend_result[2].momentum_score = 285

\* --------------------------------------------------------------- SpecFunding
\* C18: format_funding(x) ends in "B" for every x >= 1,000,000,000 and in "M"
\* for every x in [0, 1,000,000,000), the value shown being x/1e9 resp. x/1e6
\* to one decimal (at most half a tenth away); format_funding(1_000_000_000)
\* is "$1.0B" and format_funding(999_000_000) is "$999.0M".
C18_FormatFundingUnits ==
    (funding_text # "") =>
        /\ (funding_amount >= 1000000000) =>
                \E t \in {funding_amount \div 100000000, funding_amount \div 100000000 + 1} :
                    /\ funding_text =
                           "$" \o ToString(t \div 10) \o "." \o ToString(t % 10) \o "B"
                    /\ t * 100000000 - funding_amount <= 50000000
                    /\ funding_amount - t * 100000000 <= 50000000
        /\ (funding_amount >= 0 /\ funding_amount < 1000000000) =>
                \E t \in {funding_amount \div 100000, funding_amount \div 100000 + 1} :
                    /\ funding_text =
                           "$" \o ToString(t \div 10) \o "." \o ToString(t % 10) \o "M"
                    /\ t * 100000 - funding_amount <= 50000
                    /\ funding_amount - t * 100000 <= 50000
        /\ (funding_amount = 1000000000) => funding_text = "$1.0B"
        /\ (funding_amount = 999000000) => funding_text = "$999.0M"

\* the boundary amount came out in billions
C18_Witness ==
    /\ funding_amount = 1000000000
    /\ funding_text = "$1.0B"

\* ------------------------------------------------------ SpecCat, continued
\* the label items of the parsed response, by their id
ParsedItemsWithId(id) ==
    {k \in 1..Len(Iterated(cat_categories)) :
        /\ Iterated(cat_categories)[k] \in ItemTokens
        /\ ItemOf(Iterated(cat_categories)[k]).id = id}

\* C24: the id sent with each record is its zero-based position in the input
\* table, and the labels of the item with id i are attached to the record at
\* position i, whatever the row index of the table is.
C24_IdsArePositions ==
    (cat_pc = "returned" /\ cat_api = "ok") =>
        \A i \in 1..Len(startups_df.rows) :
            /\ startups_list[i].id = i - 1
            /\ \A k \in ParsedItemsWithId(i - 1) :
                    ParsedItemsWithId(i - 1) = {k} =>
                        LET item == ItemOf(Iterated(cat_categories)[k])
                        IN  /\ categorized_df[i].category = Get(item, "category", "Other")
                            /\ categorized_df[i].subcategory = Get(item, "subcategory", "")
                            /\ categorized_df[i].themes = Join(Get(item, "themes", <<>>))

\* the response is commentary, then the array literal of elems, then commentary
CommentaryAround(text, elems) ==
    \E pre \in Prefixes, suf \in Suffixes : text = pre \o ArrayLiteral(elems) \o suf

\* C25: from a response that holds leading commentary, a valid JSON array and
\* trailing commentary, _parse_categorization_response returns exactly that
\* array; from a response in which no array can be parsed it returns the empty
\* list; it never raises.
C25_ParseReturnsTheArrayOrEmptyList ==
    (cat_categories # NotParsed) =>
        /\ \A elems \in SeqUpTo(ElementTokens, MaxItems) :
                CommentaryAround(response_text, elems) =>
                    cat_categories = [kind |-> "list", elems |-> elems]
        /\ ~HasArrayLiteral(response_text) =>
                cat_categories = [kind |-> "list", elems |-> <<>>]

\* C26: the table categorize_startups returns holds exactly the records of
\* the input table, in the same order, with the same name and description,
\* whatever ids the response holds.
C26_ReturnedTableHasTheInputRecords ==
    (cat_pc = "returned" /\ cat_api = "ok") =>
        /\ Len(categorized_df) = Len(startups_df.rows)
        /\ \A i \in 1..Len(startups_df.rows) :
                /\ categorized_df[i].name = startups_df.rows[i].name
                /\ categorized_df[i].description = startups_df.rows[i].description

\* ------------------------------------------------------ SpecMain, continued
\* C29: when the categorization step of main raises, the categorized cache
\* file is as it was when the run began (neither created nor overwritten), no
\* table is handed to the dashboard and the process exits with code 1; a run
\* changes the cache file only once categorize_startups has returned.
C29_FailedCategorizationLeavesCache ==
    /\ (ended_by = "categorization_failed") =>
            /\ cache_file = cache_before
            /\ dashboard_df = EmptyFrame
            /\ main_pc = "exited" /\ exit_code = 1
    /\ (cache_file # cache_before) =>
            /\ main_pc \in {"after_step2", "exited"}
            /\ ended_by # "categorization_failed"
            /\ service_calls = 1

\* a forced re-categorization failed while a cache of an earlier run existed
C29_Witness ==
    /\ ended_by = "categorization_failed"
    /\ args.recategorize
    /\ service_calls = 1
    /\ cache_before.exists
    /\ cache_file = cache_before
    /\ exit_code = 1

\* ----------------------------------------------------------------- SpecRates
\* the per-day rate of an output row and the count and age it is computed from
RateOf(r) == IF rates_call = "growth" THEN r.star_velocity ELSE r.upvotes_per_day
CountOf(r) == IF rates_call = "growth" THEN r.stars ELSE r.upvotes
AgeOf(r) == IF rates_call = "growth" THEN r.days_old ELSE r.days_since_launch

\* C23: in calculate_growth_metrics and calculate_engagement_score the
\* per-day rate of a record of age 0 is computed with divisor 1 (the rate is
\* the count), the divisor is 0 for no record, and the rate is a defined
\* number for every record.
C23_RatesDefinedForEveryRecord ==
    (rates_call # "none") =>
        \A i \in 1..Len(rates_output) :
            LET r == rates_output[i]
            IN  /\ ~RateOf(r).nan
                /\ RateOf(r).den # 0
                /\ (~AgeOf(r).nan /\ AgeOf(r).num = 0) =>
                        (RateOf(r).num = CountOf(r) /\ RateOf(r).den = 1)

\* --------------------------------------------------------------- SpecSources
\* C27: in fetch_all_sources a fresh fetch that yields an empty record set
\* writes no cache: the cache file and the sidecar of that source are as they
\* were when the call began, and load_from_cache reads from them what it read
\* before.
C27_EmptyFetchLeavesCacheUnchanged ==
    \A source \in SourceNames :
        ( /\ src_calls[source].fetched
          /\ src_calls[source].in_results
          /\ src_calls[source].fresh.rows = <<>> ) =>
            /\ src_cache[source] = src_before[source]
            /\ \A max_age_hours \in 0..MaxAge :
                    LoadFromCacheResult(src_cache[source].csv, src_cache[source].meta,
                                        src_clock, max_age_hours)
                    = LoadFromCacheResult(src_before[source].csv,
                                          src_before[source].meta,
                                          src_clock, max_age_hours)

\* an empty fetch came back while a cached set of an earlier call was on disk
C27_Witness ==
    /\ src_pc = "returned"
    /\ src_calls.github.fetched /\ src_calls.github.in_results
    /\ src_calls.github.fresh.rows = <<>>
    /\ src_before.github.csv.exists /\ src_before.github.meta.exists
    /\ src_before.github.csv.content.rows # <<>>
    /\ src_cache.github = src_before.github

\* the sources the call under way was asked for
Asked(source) ==
    IF source = "github" THEN src_args.use_github ELSE src_args.use_producthunt

\* C28: when a call of fetch_all_sources has ended, for every source asked
\* for: with use_cache set and load_from_cache returning a non-empty set, no
\* fresh fetch was issued and the cache file and sidecar are as before; with
\* use_cache unset the cache was not read and a fresh fetch was issued.
C28_CacheHitSkipsFetchAndNoCacheAlwaysFetches ==
    (src_pc \in {"returned", "raised"}) =>
        \A source \in SourceNames :
            Asked(source) =>
                /\ ( /\ src_args.use_cache
                     /\ src_calls[source].read
                     /\ ~src_calls[source].loaded.is_none
                     /\ src_calls[source].loaded.df.rows # <<>> ) =>
                        /\ ~src_calls[source].fetched
                        /\ src_cache[source] = src_before[source]
                /\ ~src_args.use_cache =>
                        /\ ~src_calls[source].read
                        /\ src_calls[source].fetched

\* ---------------------------------------------------- SpecRemote, continued
\* C30: whenever load_from_csv_url(u) returns what it read from the cache file,
\* on the cache-hit path or on the fallback path after a failed fetch, the
\* cache file was last written by a successful fetch of the same URL u.
C30_CacheReadWasWrittenForSameUrl ==
    (remote_pc = "returned" /\ remote_from \in {"cache_hit", "fallback_cache"}) =>
        /\ remote_meta.exists
        /\ remote_meta.url = remote_args.csv_url
        /\ \A i \in 1..Len(remote_result.rows) :
                remote_result.rows[i].name = remote_args.csv_url

====
